---- MODULE Spec2Model ----
(***************************************************************************)
(* Search driver of the Stardew seed searcher                              *)
(* (python-version-with-cuda/internal/handlers.py, websocket.py,           *)
(* gpu_pure_accelerator.py).                                               *)
(*                                                                         *)
(* perform_search and its worker_task coroutines run on one asyncio event  *)
(* loop: exactly one task executes at a time and the running task keeps    *)
(* the loop until it suspends at an await that really blocks.  Those are   *)
(*   - `async with results_lock` when the lock is held or has waiters,     *)
(*   - `await manager.broadcast(...)` when at least one client is          *)
(*     connected (broadcast returns at once when there is none),           *)
(*   - `await asyncio.gather(...)` in perform_search.                      *)
(* `cur` is the task that holds the loop, `ready` the loop's FIFO of       *)
(* runnable tasks, `io` the tasks blocked in a transport send.             *)
(*                                                                         *)
(* The predicate "seed satisfies all conditions" (WeatherPredictor.check)  *)
(* is an input of the driver: `matches` is the set of seeds for which the  *)
(* CPU oracle answers True, `gpu_matches` the set for which the kernel     *)
(* writes a match bit.                                                     *)
(*                                                                         *)
(* The oracle itself (core.py, features.py, models.py) is modelled by the  *)
(* operators of the sections "hash and RNG kernel" and "weather oracle";   *)
(* PredictorSpec drives one WeatherPredictor object with them,             *)
(* CalendarSpec the CPU and GPU calendar rules, SearcherSpec and           *)
(* SampleSpec one PureGPUSeedSearcher, ModelsSpec the request models and   *)
(* RngSpec the random number helpers of the predictor, MixSpec the seed    *)
(* mixing of the CPU oracle and of the kernel.  WorkersSpec, ProgressSpec, *)
(* TimedSpec and ModeSpec are runs of the driver from other requests:      *)
(* every core count, ranges long enough for progress updates, a clock that *)
(* advances, and an accelerator available whatever the condition set.      *)
(***************************************************************************)
EXTENDS Integers, Sequences, FiniteSets, TLC

(* ---- bounds of the model ---- *)
MaxStart == 1
MaxLimit == 3
MaxCpu == 4
NumCand == 3
MaxExtra == 1
SmallTotal == 4
MaxProbe == 1
MaxMinRain == 2
MaxDayArg == 29
MaxSeedArg == 2
MaxRngSeed == 20
MaxMixArg == 2
MaxCores == 9
MaxTime == 1

(* ---- program constants ---- *)
SmallRange == 10000
MediumRange == 100000
LargeRange == 1000000
SmallInterval == 1000
UpdateInterval == 5000
batch_size == 100000000

Driver == 0 - 1
NoTask == 0 - 2

VARIABLES
    start_seed, end_seed, output_limit, has_conditions,
    matches, gpu_matches, cpu_count, gpu_available, gpu_fail_batch,
    pc_main, num_workers, pc, pos, w_start, w_end, result_count,
    checked_count, last_progress, should_stop, results,
    locked, waiters, ready, cur, io, connected,
    events, resubmitted, prev_found, discarded, raised, gpu_used,
    conditions, enabled, weather_cache, use_legacy_random,
    call, call_seed, ret, rng_seed, rng_ret, weather_of,
    abs_day, cpu_rule, gpu_rule,
    args, built,
    mix_args, cpu_seed, gpu_seed,
    now, start_time

(* a WeatherPredictor object and the last call made on it *)
predvars == <<conditions, enabled, weather_cache, use_legacy_random,
              call, call_seed, ret, rng_seed, rng_ret, weather_of>>

(* the arguments of the last seed mixing, the seed HashHelper.get_random_seed   *)
(* returned for them and the word get_random_seed_gpu returned for them         *)
mixvars == <<mix_args, cpu_seed, gpu_seed>>

(* one calendar day as decided by the CPU oracle and by the kernel, and the     *)
(* seed mixed for a draw                                                        *)
calvars == <<abs_day, cpu_rule, gpu_rule, mixvars>>

(* the keyword arguments of the last model construction and what it gave *)
modelvars == <<args, built>>

(* what no step of a run changes: the request, the oracle and time.time(),     *)
(* read as `now` in hundredths of a second                                      *)
reqvars == <<start_seed, end_seed, output_limit, has_conditions,
             matches, gpu_matches, gpu_available, gpu_fail_batch,
             predvars, calvars, modelvars, now>>

(* the variables of the search driver *)
drivervars == <<start_seed, end_seed, output_limit, has_conditions,
                matches, gpu_matches, cpu_count, gpu_available, gpu_fail_batch,
                pc_main, num_workers, pc, pos, w_start, w_end, result_count,
                checked_count, last_progress, should_stop, results,
                locked, waiters, ready, cur, io, connected,
                events, resubmitted, prev_found, discarded, raised, gpu_used,
                modelvars, now, start_time>>

vars == <<drivervars, predvars, calvars>>

(* ---- helpers ---- *)
Min(S) == CHOOSE x \in S : \A y \in S : x <= y
Min2(a, b) == IF a < b THEN a ELSE b
Range(s) == {s[i] : i \in DOMAIN s}
Workers == 0 .. (num_workers - 1)

(* variant: the range length without the + 1 *)
total_seeds_NoPlusOne == end_seed - start_seed

total_seeds == end_seed - start_seed + 1

(* feature.check over all worker features: no template means all_match stays True *)
all_match(seed) == (~has_conditions) \/ seed \in matches

(* first seed of lo..hi for which all_match holds, hi + 1 when there is none *)
NextMatch(lo, hi) ==
    IF ~has_conditions
    THEN (IF lo <= hi THEN lo ELSE hi + 1)
    ELSE LET C == {m \in matches : lo <= m /\ m <= hi}
         IN IF C = {} THEN hi + 1 ELSE Min(C)

(* ---- messages ---- *)
StartMessage(t) == [type |-> "start", total |-> t]
FoundMessage(s) == [type |-> "found", seed |-> s]
(* progress is in hundredths of a percent, elapsed in hundredths of a second *)
ProgressMessage(c, t, p, s, e) ==
    [type |-> "progress", checkedCount |-> c, total |-> t, progress |-> p,
     speed |-> s, elapsed |-> e]
(* variant: the completion message reports the checked count *)
CompleteMessage_Checked(k) == [type |-> "complete", totalFound |-> checked_count]

CompleteMessage(k) == [type |-> "complete", totalFound |-> k]

(* round(n / d) for n >= 0 and d > 0: the nearest integer, a tie going to the   *)
(* even one                                                                     *)
Round(n, d) ==
    LET q == n \div d
        r == n % d
    IN IF 2 * r < d THEN q
       ELSE IF 2 * r > d THEN q + 1
       ELSE IF q % 2 = 0 THEN q ELSE q + 1

(* the message update_progress(checked_count, total_seeds, start_time)          *)
(* broadcasts, lines 260-272; st is the value passed as start_time              *)
update_progress(c, t, st) ==
    LET elapsed == now - st
    IN ProgressMessage(c, t, Round(c * 10000, t),
                       IF elapsed > 0 THEN Round(c * 100, elapsed) ELSE 0,
                       elapsed)

(* ---- worker count and range splitting (perform_search) ---- *)
AtLeastOne(n) == IF n < 1 THEN 1 ELSE n

(* variant: the medium and large rows take every core, not half of them *)
NumWorkers_AllCores(total, max_workers) ==
    IF total < SmallRange THEN 1
    ELSE IF total < MediumRange THEN AtLeastOne(Min2(2, max_workers))
    ELSE IF total < LargeRange THEN AtLeastOne(Min2(4, max_workers))
    ELSE AtLeastOne(Min2(8, max_workers))

NumWorkers(total, max_workers) ==
    IF total < SmallRange THEN 1
    ELSE IF total < MediumRange THEN AtLeastOne(Min2(2, max_workers \div 2))
    ELSE IF total < LargeRange THEN AtLeastOne(Min2(4, max_workers \div 2))
    ELSE AtLeastOne(Min2(8, max_workers))

seeds_per_worker(total, n) ==
    IF total \div n = 0 THEN 1 ELSE total \div n

WorkerStart(i, n) == start_seed + i * seeds_per_worker(total_seeds, n)

(* variant: the last worker is not extended to end_seed *)
WorkerEnd_NoRemainder(i, n) ==
    WorkerStart(i, n) + seeds_per_worker(total_seeds, n) - 1

WorkerEnd(i, n) ==
    IF i = n - 1 THEN end_seed
    ELSE WorkerStart(i, n) + seeds_per_worker(total_seeds, n) - 1

(* ---- progress throttling (worker_task) ---- *)
update_interval == IF total_seeds < SmallRange THEN SmallInterval ELSE UpdateInterval

(* variant: the distance to the last update is not looked at *)
ProgressDue_NoGap(c, lp) ==
    c % update_interval = 0 \/ c = total_seeds

(* the test of lines 251-253 on the incremented counter c *)
ProgressDue(c, lp) ==
    /\ (c % update_interval = 0 \/ c = total_seeds)
    /\ c - lp >= update_interval

(* smallest counter value in cc+1 .. top at which ProgressDue holds, top + 1 when none *)
NextDue(cc, lp, top) ==
    LET C == {c \in ({k * update_interval : k \in 0 .. (top \div update_interval)}
                       \cup {total_seeds}) :
                  c > cc /\ c <= top /\ ProgressDue(c, lp)}
    IN IF C = {} THEN top + 1 ELSE Min(C)

(* number of consecutive seeds from lo (at most up to hi) whose iteration only      *)
(* increments checked_count: no match, no progress message                          *)
QuietRun(lo, hi, cc, lp) ==
    LET untilMatch == NextMatch(lo, hi) - lo
        untilDue == NextDue(cc, lp, cc + (hi - lo + 1)) - cc - 1
    IN Min2(untilMatch, untilDue)

(* ---- PureGPUSeedSearcher ---- *)
(* ascending list of the members of S *)
RECURSIVE SortedSeq(_)
SortedSeq(S) ==
    IF S = {} THEN <<>>
    ELSE LET m == Min(S) IN <<m>> \o SortedSeq(S \ {m})

(* variant: the slice keeps one element more *)
Take_OneMore(s, k) == SubSeq(s, 1, Min2(k + 1, Len(s)))

Take(s, k) == SubSeq(s, 1, Min2(k, Len(s)))

(* _search_seeds_cpu_fallback: ascending scan, stops when the list holds limit seeds *)
RECURSIVE cpu_fallback_loop(_, _, _, _)
cpu_fallback_loop(seed, hi, limit, res) ==
    IF seed > hi \/ Len(res) >= limit THEN res
    ELSE LET q == NextMatch(seed, hi)
         IN IF q > hi THEN res
            ELSE cpu_fallback_loop(q + 1, hi, limit, Append(res, q))

search_seeds_cpu_fallback(lo, hi, limit) == cpu_fallback_loop(lo, hi, limit, <<>>)

(* seeds of a batch whose kernel result is 1, in lane order *)
batch_results(bstart, bend) ==
    SortedSeq({m \in gpu_matches : bstart <= m /\ m <= bend})

(* variant: a batch runs one seed into the next one *)
BatchEnd_Overlap(bstart, hi) ==
    IF hi - bstart < batch_size THEN hi ELSE bstart + batch_size

BatchEnd(bstart, hi) ==
    IF hi - bstart < batch_size THEN hi ELSE bstart + batch_size - 1

(* variant: the except clause keeps what earlier batches gathered *)
gpu_except_KeepPartial(lo, hi, limit, all_results) ==
    Take(all_results \o search_seeds_cpu_fallback(lo, hi, limit), limit)

(* lines 558-561: the except clause of search_seeds_pure_gpu; the seeds gathered  *)
(* by earlier batches (all_results) are dropped                                  *)
gpu_except(lo, hi, limit, all_results) == search_seeds_cpu_fallback(lo, hi, limit)

(* the batch loop of search_seeds_pure_gpu; idx counts the batches from 1.   *)
(* A kernel failure in batch gpu_fail_batch raises into the except clause,   *)
(* which restarts on the CPU over the whole range.                           *)
RECURSIVE gpu_batch_loop(_, _, _, _, _, _)
gpu_batch_loop(lo, hi, limit, bstart, idx, all_results) ==
    IF bstart > hi THEN Take(all_results, limit)
    ELSE IF idx = gpu_fail_batch THEN gpu_except(lo, hi, limit, all_results)
    ELSE LET acc == all_results \o batch_results(bstart, BatchEnd(bstart, hi))
         IN IF Len(acc) >= limit THEN Take(acc, limit)
            ELSE IF hi - bstart < batch_size THEN Take(acc, limit)
            ELSE gpu_batch_loop(lo, hi, limit, bstart + batch_size, idx + 1, acc)

search_seeds_pure_gpu(lo, hi, limit) ==
    IF ~gpu_available THEN search_seeds_cpu_fallback(lo, hi, limit)
    ELSE gpu_batch_loop(lo, hi, limit, lo, 1, <<>>)

(* the batches <<batch_start, batch_end>> the loop of lines 510-549 completes,   *)
(* in processing order; count is current_output_count.  The batch that raises    *)
(* is not completed.                                                             *)
RECURSIVE gpu_batches(_, _, _, _, _)
gpu_batches(hi, limit, bstart, idx, count) ==
    IF bstart > hi \/ idx = gpu_fail_batch THEN <<>>
    ELSE LET bend == BatchEnd(bstart, hi)
             c == count + Len(batch_results(bstart, bend))
         IN <<<<bstart, bend>>>> \o
            (IF c >= limit \/ hi - bstart < batch_size THEN <<>>
             ELSE gpu_batches(hi, limit, bstart + batch_size, idx + 1, c))

(* number of batches the range is tiled into *)
NumBatches(lo, hi) == ((hi - lo) \div batch_size) + 1

(* ======================= hash and RNG kernel (core.py) ======================= *)
(* TLC integers are 32-bit signed.  Unsigned 32-bit words are kept as            *)
(* <<high half, low half>> with 16-bit halves; Python's unbounded products are   *)
(* computed by modular arithmetic that never leaves 31 bits.                     *)
int32_max == 2147483647
MinInt32 == (0 - 2147483647) - 1
Half == 65536

(* value.to_bytes(4, 'little') of value + 2**32 for a negative value (lines 27-32) *)
ToWord(x) == <<(x \div Half) % Half, x % Half>>

(* get_hash_from_bytes lines 44-47: the digest read as a signed 32-bit integer *)
ToSigned(w) ==
    IF w[1] >= 32768 THEN (w[1] - Half) * Half + w[2] ELSE w[1] * Half + w[2]

PRIME32_1 == <<40503, 31153>>
PRIME32_2 == <<34283, 51831>>
PRIME32_3 == <<49842, 44605>>
PRIME32_4 == <<10196, 60207>>
PRIME32_5 == <<5718, 26545>>

(* statements run in order: the value assigned first is computed before the     *)
(* statements after it                                                           *)
InOrder(first, rest) == IF first = first THEN rest ELSE rest

Add32(a, b) ==
    LET lo == a[2] + b[2]
    IN <<(a[1] + b[1] + (lo \div Half)) % Half, lo % Half>>

(* low and high half of the product of two 16-bit numbers *)
MulLo16(x, y) == (((((x \div 256) * y) % 256) * 256) + ((x % 256) * y)) % Half

MulHi16(x, y) ==
    LET p == (x \div 256) * y
        q == ((p % 256) * 256) + ((x % 256) * y)
    IN (p \div 256) + (q \div Half)

Mul32(a, b) ==
    <<(MulHi16(a[2], b[2]) + MulLo16(a[1], b[2]) + MulLo16(a[2], b[1])) % Half,
      MulLo16(a[2], b[2])>>

Pow2(n) == <<1, 2, 4, 8, 16, 32, 64, 128, 256, 512, 1024, 2048, 4096, 8192,
             16384, 32768, 65536>>[n + 1]

RotSmall(w, r) ==
    <<((w[1] * Pow2(r)) % Half) + (w[2] \div Pow2(16 - r)),
      ((w[2] * Pow2(r)) % Half) + (w[1] \div Pow2(16 - r))>>

rotl32(w, r) ==
    IF r = 16 THEN <<w[2], w[1]>>
    ELSE IF r < 16 THEN RotSmall(w, r)
    ELSE RotSmall(<<w[2], w[1]>>, r - 16)

(* w >> r for 0 < r <= 16 *)
Shr32(w, r) ==
    IF r = 16 THEN <<0, w[1]>>
    ELSE <<w[1] \div Pow2(r),
           ((w[1] % Pow2(r)) * Pow2(16 - r)) + (w[2] \div Pow2(r))>>

RECURSIVE Xor16(_, _, _)
Xor16(x, y, n) ==
    IF n = 0 THEN 0
    ELSE ((x + y) % 2) + 2 * Xor16(x \div 2, y \div 2, n - 1)

Xor32(a, b) == <<Xor16(a[1], b[1], 16), Xor16(a[2], b[2], 16)>>

round32(seed, input_val) ==
    Mul32(rotl32(Add32(seed, Mul32(input_val, PRIME32_2)), 13), PRIME32_1)

(* XXH32, seed 0, of the 20 bytes made of five little-endian 32-bit words:       *)
(* one 16-byte stripe, one remaining word, final mixing                          *)
xxhash32_single(a, b, c, d, e) ==
    LET v1 == round32(Add32(PRIME32_1, PRIME32_2), a)
        v2 == round32(PRIME32_2, b)
        v3 == round32(<<0, 0>>, c)
        v4 == round32(ToWord(0 - ToSigned(PRIME32_1)), d)
        h0 == Add32(Add32(rotl32(v1, 1), rotl32(v2, 7)),
                    Add32(rotl32(v3, 12), rotl32(v4, 18)))
        h1 == Add32(h0, <<0, 20>>)
        h2 == Mul32(rotl32(Add32(h1, Mul32(e, PRIME32_3)), 17), PRIME32_4)
        h3 == Xor32(h2, Shr32(h2, 15))
        h4 == Mul32(h3, PRIME32_2)
        h5 == Xor32(h4, Shr32(h4, 13))
        h6 == Mul32(h5, PRIME32_3)
    IN InOrder(v1, InOrder(v2, InOrder(v3, InOrder(v4, InOrder(h0, InOrder(h2,
       InOrder(h3, InOrder(h4, InOrder(h5, InOrder(h6,
           Xor32(h6, Shr32(h6, 16))))))))))))

get_hash_from_array(a, b, c, d, e) ==
    ToSigned(xxhash32_single(ToWord(a), ToWord(b), ToWord(c), ToWord(d), ToWord(e)))

(* get_hash_from_string("summer_rain_chance"), get_hash_from_string("location_weather") *)
summer_rain_chance_hash == 0 - 309161378
location_weather_hash == 0 - 1513201250

(* variant: the remainder is Python's, never negative *)
go_modulo_Euclid(x, m) == x % m

go_modulo(x, m) ==
    LET result == x % m
    IN IF x < 0 /\ result > 0 THEN result - m ELSE result

(* (x + y) % int32_max for x, y in 0 .. int32_max - 1 *)
AddMod(x, y) == IF x >= int32_max - y THEN x - (int32_max - y) ELSE x + y

get_random_seed(a, b, c, d, e, use_legacy) ==
    LET a1 == go_modulo(a, int32_max)
        b1 == go_modulo(b, int32_max)
        c1 == go_modulo(c, int32_max)
        d1 == go_modulo(d, int32_max)
        e1 == go_modulo(e, int32_max)
    IN IF use_legacy
       THEN AddMod(AddMod(AddMod(a1 % int32_max, b1 % int32_max),
                          AddMod(c1 % int32_max, d1 % int32_max)),
                   e1 % int32_max)
       ELSE get_hash_from_array(a1, b1, c1, d1, e1)

(* (v * 2^k) % int32_max for v in 0 .. int32_max - 1 and k in 1 .. 16: 2^31 leaves *)
(* 1, so the product is v rotated left by k within 31 bits                       *)
Rot31(v, k) == ((v % (Pow2(15) * Pow2(16 - k))) * Pow2(k)) + (v \div (Pow2(15) * Pow2(16 - k)))

(* (a * b) % int32_max for a, b in 0 .. 65535 *)
MulMod16(a, b) == AddMod(Rot31((a \div 256) * b, 8), (a % 256) * b)

(* (x * y) % int32_max for x, y in 0 .. int32_max - 1, by 16-bit limbs *)
MulMod(x, y) ==
    LET x1 == x \div Half
        x0 == x % Half
        y1 == y \div Half
        y0 == y % Half
    IN AddMod(AddMod(Rot31(MulMod16(x1, y1), 1),
                     Rot31(AddMod(MulMod16(x1, y0), MulMod16(x0, y1)), 16)),
              MulMod16(x0, y0))

(* |seed| % int32_max; |MinInt32| = 2^31 leaves 1 *)
AbsMod(seed) ==
    IF seed = MinInt32 THEN 1
    ELSE IF seed < 0 THEN (0 - seed) % int32_max
    ELSE seed % int32_max

multiplier == 1121899819
constant == 1559595546

(* variant: the sign of the seed is not dropped *)
get_first_rand_NoAbs(seed) ==
    AddMod(MulMod(multiplier, seed % int32_max), constant)

(* _get_first_rand: (multiplier * |seed| + constant) % int32_max *)
get_first_rand(seed) ==
    LET seed_abs == AbsMod(seed)
    IN InOrder(seed_abs, AddMod(MulMod(multiplier, seed_abs), constant))

(* (x * n) // int32_max for x in 0 .. int32_max - 1: <<quotient, remainder>> of  *)
(* x * k is carried from k - 1 to k                                              *)
RECURSIVE MulDiv(_, _)
MulDiv(x, n) ==
    IF n = 0 THEN <<0, 0>>
    ELSE LET p == MulDiv(x, n - 1)
         IN IF p[2] >= int32_max - x
            THEN <<p[1] + 1, p[2] - (int32_max - x)>>
            ELSE <<p[1], p[2] + x>>

(* _random_next *)
random_next(seed, max_value) ==
    IF max_value <= 0 THEN 0
    ELSE LET first_rand == get_first_rand(seed)
         IN InOrder(first_rand, MulDiv(first_rand, max_value)[1])

(* largest first_rand with first_rand / 0x7FFFFFFF < permille / 1000.            *)
(* permille * int32_max is never a multiple of 1000 for permille in 1 .. 999, so *)
(* the quotient is at least 0.001 / int32_max away from the bound and the double *)
(* division and comparison of the code decide exactly as the rationals do.       *)
Threshold(permille) == permille * 2147483 + ((permille * 647) \div 1000)

(* _random_next_double(seed) < permille / 1000 *)
random_next_double_below(seed, permille) == get_first_rand(seed) <= Threshold(permille)

(* ======================= weather oracle (features.py) ======================= *)
green_rain_days == <<5, 6, 7, 14, 15, 16, 18, 23>>

(* lines 116-119 *)
green_rain_day(game_id, use_legacy) ==
    green_rain_days[random_next(get_random_seed(777, game_id, 0, 0, 0, use_legacy),
                                Len(green_rain_days)) + 1]

(* variant: day 1 is fixed dry in Spring only *)
fixed_rule_SpringDayOne(season, day_of_month, green) ==
    IF season = 0
    THEN IF day_of_month \in {1, 2, 4, 5} THEN "dry"
         ELSE IF day_of_month = 3 THEN "rain"
         ELSE IF day_of_month \in {13, 24} THEN "dry"
         ELSE "draw"
    ELSE IF season = 1
         THEN IF day_of_month = green THEN "rain"
              ELSE IF day_of_month \in {11, 28} THEN "dry"
              ELSE IF day_of_month % 13 = 0 THEN "rain"
              ELSE "draw"
    ELSE IF season = 2
         THEN IF day_of_month \in {16, 27} THEN "dry" ELSE "draw"
    ELSE "draw"

(* the fixed calendar rules of _is_rainy_day, lines 133-151 and 161-162:         *)
(* "dry" and "rain" are the early returns, "draw" falls to a probabilistic draw  *)
fixed_rule(season, day_of_month, green) ==
    IF day_of_month = 1 THEN "dry"
    ELSE IF season = 0
         THEN IF day_of_month \in {2, 4, 5} THEN "dry"
              ELSE IF day_of_month = 3 THEN "rain"
              ELSE IF day_of_month \in {13, 24} THEN "dry"
              ELSE "draw"
    ELSE IF season = 1
         THEN IF day_of_month = green THEN "rain"
              ELSE IF day_of_month \in {11, 28} THEN "dry"
              ELSE IF day_of_month % 13 = 0 THEN "rain"
              ELSE "draw"
    ELSE IF season = 2
         THEN IF day_of_month \in {16, 27} THEN "dry" ELSE "draw"
    ELSE "draw"

(* variant: the draws are seeded with the day itself, not the day before *)
rain_draw_SameDay(season, day_of_month, absolute_day, game_id, use_legacy) ==
    IF season = 1
    THEN random_next_double_below(
             get_random_seed(absolute_day, game_id \div 2,
                             summer_rain_chance_hash, 0, 0, use_legacy),
             120 + 3 * (day_of_month - 1))
    ELSE random_next_double_below(
             get_random_seed(location_weather_hash, game_id,
                             absolute_day, 0, 0, use_legacy),
             183)

(* the probabilistic draws of _is_rainy_day, lines 154-158 and 166-169 *)
rain_draw(season, day_of_month, absolute_day, game_id, use_legacy) ==
    IF season = 1
    THEN random_next_double_below(
             get_random_seed(absolute_day - 1, game_id \div 2,
                             summer_rain_chance_hash, 0, 0, use_legacy),
             120 + 3 * (day_of_month - 1))
    ELSE random_next_double_below(
             get_random_seed(location_weather_hash, game_id,
                             absolute_day - 1, 0, 0, use_legacy),
             183)

is_rainy_day(season, day_of_month, absolute_day, game_id, use_legacy, green) ==
    LET f == fixed_rule(season, day_of_month, green)
    IN IF f = "rain" THEN TRUE
       ELSE IF f = "dry" THEN FALSE
       ELSE rain_draw(season, day_of_month, absolute_day, game_id, use_legacy)

(* predict_weather: the dictionary it leaves in _weather_cache *)
predict_weather(game_id, use_legacy) ==
    LET green == green_rain_day(game_id, use_legacy)
    IN [absolute_day \in 1 .. 84 |->
           is_rainy_day((absolute_day - 1) \div 28, ((absolute_day - 1) % 28) + 1,
                        absolute_day, game_id, use_legacy, green)]

(* the seed _is_rainy_day mixes for the draw of a day, lines 154 and 166 *)
rain_seed(season, absolute_day, game_id, use_legacy) ==
    IF season = 1
    THEN get_random_seed(absolute_day - 1, game_id \div 2,
                         summer_rain_chance_hash, 0, 0, use_legacy)
    ELSE get_random_seed(location_weather_hash, game_id,
                         absolute_day - 1, 0, 0, use_legacy)

(* ======================= kernel (gpu_pure_accelerator.py) ======================= *)
(* value of an unsigned 32-bit word modulo int32_max; 2^31 leaves 1 *)
WordMod(w) ==
    IF w[1] >= 32768
    THEN AddMod((((w[1] - 32768) * Half) + w[2]) % int32_max, 1)
    ELSE ((w[1] * Half) + w[2]) % int32_max

(* get_random_seed_gpu: arguments and result are unsigned 32-bit words; the      *)
(* legacy sum is taken in 64 bits and the arguments are not reduced first        *)
get_random_seed_gpu(a, b, c, d, e, use_legacy) ==
    IF use_legacy
    THEN ToWord(AddMod(AddMod(AddMod(WordMod(a), WordMod(b)),
                              AddMod(WordMod(c), WordMod(d))), WordMod(e)))
    ELSE xxhash32_single(a, b, c, d, e)

(* 0xed92925e and 0xa5ce619e, lines 286 and 300 *)
summer_rain_chance_hash_gpu == <<60818, 37470>>
location_weather_hash_gpu == <<42446, 24990>>

(* the seed is_rainy_day_gpu mixes for the draw of a day, lines 287 and 301;     *)
(* absolute_day - 1 and game_id / 2 are converted to unsigned int                *)
rain_seed_gpu(season, absolute_day, game_id, use_legacy) ==
    IF season = 1
    THEN get_random_seed_gpu(ToWord(absolute_day - 1), ToWord(game_id \div 2),
                             summer_rain_chance_hash_gpu, <<0, 0>>, <<0, 0>>,
                             use_legacy)
    ELSE get_random_seed_gpu(location_weather_hash_gpu, ToWord(game_id),
                             ToWord(absolute_day - 1), <<0, 0>>, <<0, 0>>,
                             use_legacy)

(* get_first_rand_gpu: -seed of a word that is negative as int *)
get_first_rand_gpu(w) ==
    LET seed_abs == AbsMod(ToSigned(w))
    IN InOrder(seed_abs, AddMod(MulMod(multiplier, seed_abs), constant))

random_next_gpu(w, max_value) ==
    IF max_value <= 0 THEN 0
    ELSE LET first_rand == get_first_rand_gpu(w)
         IN InOrder(first_rand, MulDiv(first_rand, max_value)[1])

(* lines 268-271 *)
green_rain_day_gpu(game_id, use_legacy) ==
    green_rain_days[random_next_gpu(
        get_random_seed_gpu(ToWord(777), ToWord(game_id), <<0, 0>>, <<0, 0>>,
                            <<0, 0>>, use_legacy), 8) + 1]

(* the fixed calendar rules of is_rainy_day_gpu, lines 254-296 *)
fixed_rule_gpu(season, day_of_month, game_id, use_legacy) ==
    IF season = 0
    THEN IF day_of_month \in {1, 2, 4, 5} THEN "dry"
         ELSE IF day_of_month = 3 THEN "rain"
         ELSE IF day_of_month \in {13, 24} THEN "dry"
         ELSE "draw"
    ELSE IF season = 1
         THEN IF day_of_month = green_rain_day_gpu(game_id, use_legacy) THEN "rain"
              ELSE IF day_of_month \in {11, 28} THEN "dry"
              ELSE IF day_of_month % 13 = 0 THEN "rain"
              ELSE "draw"
    ELSE IF season = 2
         THEN IF day_of_month \in {16, 27} THEN "dry" ELSE "draw"
    ELSE "draw"

(* WeatherCondition.absolute_start_day / absolute_end_day *)
season_offset(season) ==
    IF season = "Spring" THEN 0 ELSE IF season = "Summer" THEN 28 ELSE 56

absolute_start_day(c) == season_offset(c.season) + c.start_day
absolute_end_day(c) == season_offset(c.season) + c.end_day

(* _count_rain_in_range *)
count_rain_in_range(weather, c) ==
    Cardinality({day \in absolute_start_day(c) .. absolute_end_day(c) :
                    day \in DOMAIN weather /\ weather[day]})

(* variant: a clause asks for exactly min_rain_days rainy days *)
conditions_met_Exact(conds, weather) ==
    \A i \in 1 .. Len(conds) :
        count_rain_in_range(weather, conds[i]) = conds[i].min_rain_days

(* the loop of check, lines 86-91, over the predicted weather *)
conditions_met(conds, weather) ==
    \A i \in 1 .. Len(conds) :
        ~(count_rain_in_range(weather, conds[i]) < conds[i].min_rain_days)

(* the value check returns, lines 76-91 *)
check_returns(conds, seed, use_legacy) ==
    IF conds = <<>> THEN TRUE
    ELSE conditions_met(conds, predict_weather(seed, use_legacy))

(* no predictor under observation *)
PredictorIdle ==
    /\ conditions = <<>>
    /\ enabled = TRUE
    /\ weather_cache = <<>>
    /\ use_legacy_random = FALSE
    /\ call = "none"
    /\ call_seed = 0
    /\ ret = FALSE
    /\ rng_seed = 0
    /\ rng_ret = 0
    /\ weather_of = <<>>

(* no seed mixed yet *)
MixIdle ==
    /\ mix_args = <<>>
    /\ cpu_seed = 0
    /\ gpu_seed = <<>>

CalendarIdle ==
    /\ abs_day = 0
    /\ cpu_rule = "none"
    /\ gpu_rule = "none"
    /\ MixIdle

(* the clock has not been read *)
ClockIdle ==
    /\ now = 0
    /\ start_time = 0

(* no model constructed yet *)
NotBuilt == [model |-> "none", error |-> "none", value |-> <<>>]

ModelsIdle ==
    /\ args = <<>>
    /\ built = NotBuilt

(* ---- initial states: server constructed, one request to be submitted ---- *)
Extras == 0 .. MaxExtra
CpuTotals == {SmallTotal + d : d \in Extras} \cup {SmallRange + d : d \in Extras}
GpuTotals == CpuTotals \cup {batch_size + SmallRange + d : d \in Extras}

Cand(lo, total) ==
    {lo + k * (total \div NumCand) : k \in 0 .. (NumCand - 2)} \cup {lo + total - 1}

Near(S, C) == {S} \cup {S \cup {c} : c \in C} \cup {S \ {c} : c \in C}

Init ==
    /\ start_seed \in {0, MaxStart}
    /\ output_limit \in 1 .. MaxLimit
    /\ cpu_count = 0
    /\ has_conditions \in BOOLEAN
    /\ gpu_available \in (IF has_conditions THEN BOOLEAN ELSE {FALSE})
    /\ \E total \in (IF has_conditions /\ gpu_available THEN GpuTotals ELSE CpuTotals) :
          /\ end_seed = start_seed + total - 1
          /\ matches \in (IF has_conditions
                          THEN SUBSET Cand(start_seed, total) ELSE {{}})
          /\ gpu_matches \in (IF has_conditions /\ gpu_available
                              THEN Near(matches, Cand(start_seed, total)) ELSE {{}})
          /\ gpu_fail_batch \in (IF has_conditions /\ gpu_available
                                 THEN 0 .. NumBatches(start_seed, end_seed) ELSE {0})
    /\ connected = FALSE
    /\ pc_main = "idle"
    /\ num_workers = 0
    /\ pc = <<>>
    /\ pos = <<>>
    /\ w_start = <<>>
    /\ w_end = <<>>
    /\ result_count = <<>>
    /\ checked_count = 0
    /\ last_progress = 0
    /\ should_stop = FALSE
    /\ results = <<>>
    /\ locked = FALSE
    /\ waiters = <<>>
    /\ ready = <<>>
    /\ cur = NoTask
    /\ io = {}
    /\ events = <<>>
    /\ resubmitted = FALSE
    /\ prev_found = <<>>
    /\ discarded = {}
    /\ raised = {}
    /\ gpu_used = FALSE
    /\ PredictorIdle
    /\ CalendarIdle
    /\ ModelsIdle
    /\ ClockIdle

(* ---- event loop and transport (asyncio, ConnectionManager) ---- *)
(* the loop hands the CPU to the task at the head of its ready queue *)
Dispatch ==
    /\ cur = NoTask
    /\ ready # <<>>
    /\ cur' = Head(ready)
    /\ ready' = Tail(ready)
    /\ UNCHANGED <<reqvars, start_time, cpu_count, pc_main, num_workers, pc, pos, w_start, w_end, result_count,
                   checked_count, last_progress, should_stop, results, locked,
                   waiters, io, connected, events, resubmitted, prev_found, discarded,
                   raised, gpu_used>>

(* connection.send_text of task t returns: the task becomes runnable again *)
SendReturn(t) ==
    /\ cur = NoTask
    /\ t \in io
    /\ io' = io \ {t}
    /\ ready' = Append(ready, t)
    /\ UNCHANGED <<reqvars, start_time, cpu_count, pc_main, num_workers, pc, pos, w_start, w_end, result_count,
                   checked_count, last_progress, should_stop, results, locked,
                   waiters, cur, connected, events, resubmitted, prev_found, discarded,
                   raised, gpu_used>>

(* ConnectionManager.connect / disconnect, run by the websocket endpoint tasks;  *)
(* `connected` says whether active_connections is non-empty: connect is the      *)
(* first client arriving, disconnect the last one leaving                        *)
connect ==
    /\ cur = NoTask
    /\ ~connected
    /\ connected' = TRUE
    /\ UNCHANGED <<reqvars, start_time, cpu_count, pc_main, num_workers, pc, pos, w_start, w_end, result_count,
                   checked_count, last_progress, should_stop, results, locked,
                   waiters, ready, cur, io, events, resubmitted, prev_found, discarded,
                   raised, gpu_used>>

disconnect ==
    /\ cur = NoTask
    /\ connected
    /\ connected' = FALSE
    /\ UNCHANGED <<reqvars, start_time, cpu_count, pc_main, num_workers, pc, pos, w_start, w_end, result_count,
                   checked_count, last_progress, should_stop, results, locked,
                   waiters, ready, cur, io, events, resubmitted, prev_found, discarded,
                   raised, gpu_used>>

(* ConnectionManager.broadcast called by task t: the message is handed to the   *)
(* transport; with no client connected the call returns without suspending,     *)
(* otherwise t waits in send_text.                                              *)
Suspends == connected

broadcast(t, message) ==
    /\ events' = Append(events, message)
    /\ io' = IF Suspends THEN io \cup {t} ELSE io
    /\ cur' = IF Suspends THEN NoTask ELSE t

(* seeds of the found messages broadcast so far, in emission order *)
RECURSIVE FoundOf(_)
FoundOf(evs) ==
    IF evs = <<>> THEN <<>>
    ELSE IF Head(evs).type = "found"
         THEN <<Head(evs).seed>> \o FoundOf(Tail(evs))
         ELSE FoundOf(Tail(evs))

FoundSeq == FoundOf(events)

(* ---- asyncio.Lock (results_lock) ---- *)
(* Lock.release -> _wake_up_first: the first waiter whose future is not done     *)
(* is made runnable; it stays in the waiter queue until it runs.                 *)
(* variant: release wakes nobody *)
WakeUpFirst_Never(q) == q

WakeUpFirst(q) ==
    IF waiters # <<>> /\ Head(waiters) \notin Range(q)
    THEN Append(q, Head(waiters)) ELSE q

(* a worker task finishes; gather wakes perform_search when it was the last one *)
GatherDone(w, q) ==
    IF \A v \in Workers \ {w} : pc[v] = "done" THEN Append(q, Driver) ELSE q

(* ---- handle_search / perform_search ---- *)
(* variant: the accelerator is tried for every non-empty range *)
use_gpu_AnyConditions == total_seeds > 0

(* line 71 *)
use_gpu == total_seeds > 0 /\ has_conditions

(* handle_search creates the perform_search task of a request *)
StartRun ==
    /\ cur = NoTask
    /\ ready = <<>>
    /\ io = {}
    /\ pc_main' = "begin"
    /\ ready' = <<Driver>>
    /\ events' = <<>>
    /\ num_workers' = 0
    /\ pc' = <<>>
    /\ pos' = <<>>
    /\ w_start' = <<>>
    /\ w_end' = <<>>
    /\ result_count' = <<>>
    /\ checked_count' = 0
    /\ last_progress' = 0
    /\ should_stop' = FALSE
    /\ results' = <<>>
    /\ discarded' = {}
    /\ raised' = {}
    /\ gpu_used' = FALSE
    /\ UNCHANGED <<reqvars, start_time, cpu_count, locked, waiters, cur, io, connected>>

handle_search ==
    /\ pc_main = "idle"
    /\ StartRun
    /\ UNCHANGED <<prev_found, resubmitted>>

(* the same request is posted a second time after its first run has completed;  *)
(* prev_found keeps what the first run reported                                  *)
resubmit ==
    /\ pc_main = "done"
    /\ ~resubmitted
    /\ resubmitted' = TRUE
    /\ prev_found' = FoundSeq
    /\ StartRun

(* lines 46-68: total_seeds, feature templates, start message *)
PerformSearchStart ==
    /\ cur = Driver
    /\ pc_main = "begin"
    /\ start_time' = now
    /\ broadcast(Driver, StartMessage(total_seeds))
    /\ pc_main' = "started"
    /\ UNCHANGED <<reqvars, cpu_count, num_workers, pc, pos, w_start, w_end, result_count,
                   checked_count, last_progress, should_stop, results, locked,
                   waiters, ready, connected, resubmitted, prev_found, discarded,
                   raised, gpu_used>>

(* lines 73-79: the accelerator is available, the whole search runs inside      *)
(* search_seeds_pure_gpu without suspending                                      *)
PerformSearchGpu ==
    /\ cur = Driver
    /\ pc_main = "started"
    /\ use_gpu /\ gpu_available
    /\ results' = search_seeds_pure_gpu(start_seed, end_seed, output_limit)
    /\ gpu_used' = TRUE
    /\ pc_main' = "gpu_found"
    /\ UNCHANGED <<reqvars, start_time, cpu_count, num_workers, pc, pos, w_start, w_end, result_count,
                   checked_count, last_progress, should_stop, locked, waiters,
                   ready, cur, io, connected, events, resubmitted, prev_found,
                   discarded, raised>>

(* lines 82-84: one found message per returned seed, in list order *)
GpuSendFound ==
    /\ cur = Driver
    /\ pc_main = "gpu_found"
    /\ Len(FoundSeq) < Len(results)
    /\ broadcast(Driver, FoundMessage(results[Len(FoundSeq) + 1]))
    /\ UNCHANGED <<reqvars, start_time, cpu_count, pc_main, num_workers, pc, pos, w_start, w_end, result_count,
                   checked_count, last_progress, should_stop, results, locked,
                   waiters, ready, connected, resubmitted, prev_found, discarded,
                   raised, gpu_used>>

(* lines 87-92: completion message of the accelerator path, then return *)
GpuComplete ==
    /\ cur = Driver
    /\ pc_main = "gpu_found"
    /\ Len(FoundSeq) >= Len(results)
    /\ events' = Append(events, CompleteMessage(Len(results)))
    /\ pc_main' = "done"
    /\ cur' = NoTask
    /\ UNCHANGED <<reqvars, start_time, cpu_count, num_workers, pc, pos, w_start, w_end, result_count,
                   checked_count, last_progress, should_stop, results, locked,
                   waiters, ready, io, connected, resubmitted, prev_found, discarded,
                   raised, gpu_used>>

(* lines 93-162: CPU path; worker count, shared state, one task per sub-range,   *)
(* then perform_search waits in gather.  os.cpu_count() is read here: 0 stands   *)
(* for "not read yet", the machine's value never changes once read.              *)
PerformSearchCpu ==
    /\ cur = Driver
    /\ pc_main = "started"
    /\ ~(use_gpu /\ gpu_available)
    /\ cpu_count' \in (IF cpu_count = 0 THEN 1 .. MaxCpu ELSE {cpu_count})
    /\ LET n == NumWorkers(total_seeds, cpu_count')
       IN /\ num_workers' = n
          /\ pc' = [w \in 0 .. (n - 1) |-> "loop"]
          /\ pos' = [w \in 0 .. (n - 1) |-> WorkerStart(w, n)]
          /\ w_start' = [w \in 0 .. (n - 1) |-> WorkerStart(w, n)]
          /\ w_end' = [w \in 0 .. (n - 1) |-> WorkerEnd(w, n)]
          /\ result_count' = [w \in 0 .. (n - 1) |-> 0]
          /\ ready' = ready \o [i \in 1 .. n |-> i - 1]
    /\ checked_count' = 0
    /\ results' = <<>>
    /\ last_progress' = 0
    /\ should_stop' = FALSE
    /\ locked' = FALSE
    /\ waiters' = <<>>
    /\ pc_main' = "gather"
    /\ cur' = NoTask
    /\ UNCHANGED <<reqvars, start_time, io, connected, events, resubmitted,
                   prev_found, discarded, raised, gpu_used>>

(* lines 162-169: gather returned; final progress update *)
Gathered ==
    /\ cur = Driver
    /\ pc_main = "gather"
    /\ broadcast(Driver, update_progress(checked_count, total_seeds, start_time))
    /\ pc_main' = "final_progress"
    /\ UNCHANGED <<reqvars, start_time, cpu_count, num_workers, pc, pos, w_start, w_end, result_count,
                   checked_count, last_progress, should_stop, results, locked,
                   waiters, ready, connected, resubmitted, prev_found, discarded,
                   raised, gpu_used>>

(* lines 171-177: completion message of the CPU path *)
PerformSearchComplete ==
    /\ cur = Driver
    /\ pc_main = "final_progress"
    /\ events' = Append(events, CompleteMessage(Len(results)))
    /\ pc_main' = "done"
    /\ cur' = NoTask
    /\ UNCHANGED <<reqvars, start_time, cpu_count, num_workers, pc, pos, w_start, w_end, result_count,
                   checked_count, last_progress, should_stop, results, locked,
                   waiters, ready, io, connected, resubmitted, prev_found, discarded,
                   raised, gpu_used>>

(* ---- worker_task ---- *)
(* variant: off by one in the room test *)
HasRoom_OffByOne == Len(results) <= output_limit

(* line 224: the match list still has room *)
HasRoom == Len(results) < output_limit

(* line 209 / 211-212: the range is exhausted, or the stop flag is seen *)
WorkerReturn(w) ==
    /\ cur = w
    /\ pc[w] = "loop"
    /\ (pos[w] > w_end[w] \/ should_stop)
    /\ pc' = [pc EXCEPT ![w] = "done"]
    /\ ready' = GatherDone(w, ready)
    /\ cur' = NoTask
    /\ UNCHANGED <<reqvars, start_time, cpu_count, pc_main, num_workers, pos, w_start, w_end, result_count,
                   checked_count, last_progress, should_stop, results, locked,
                   waiters, io, connected, events, resubmitted, prev_found, discarded,
                   raised, gpu_used>>

(* variant: the loop goes on without looking at the stop flag *)
WorkerSkip_IgnoreStop(w) ==
    /\ cur = w
    /\ pc[w] = "loop"
    /\ pos[w] <= w_end[w]
    /\ LET n == QuietRun(pos[w], w_end[w], checked_count, last_progress)
       IN /\ n > 0
          /\ pos' = [pos EXCEPT ![w] = pos[w] + n]
          /\ checked_count' = checked_count + n
    /\ UNCHANGED <<reqvars, start_time, cpu_count, pc_main, num_workers, pc, w_start, w_end, result_count,
                   last_progress, should_stop, results, locked, waiters, ready,
                   cur, io, connected, events, resubmitted, prev_found, discarded,
                   raised, gpu_used>>

(* lines 209-255 over a run of seeds that neither match nor reach a progress     *)
(* update: each iteration only increments checked_count                          *)
WorkerSkip(w) ==
    /\ cur = w
    /\ pc[w] = "loop"
    /\ pos[w] <= w_end[w] /\ ~should_stop
    /\ LET n == QuietRun(pos[w], w_end[w], checked_count, last_progress)
       IN /\ n > 0
          /\ pos' = [pos EXCEPT ![w] = pos[w] + n]
          /\ checked_count' = checked_count + n
    /\ UNCHANGED <<reqvars, start_time, cpu_count, pc_main, num_workers, pc, w_start, w_end, result_count,
                   last_progress, should_stop, results, locked, waiters, ready,
                   cur, io, connected, events, resubmitted, prev_found, discarded,
                   raised, gpu_used>>

(* lines 215-219, 245-255: the seed does not match and a progress update is due *)
WorkerProgress(w) ==
    /\ cur = w
    /\ pc[w] = "loop"
    /\ pos[w] <= w_end[w] /\ ~should_stop
    /\ QuietRun(pos[w], w_end[w], checked_count, last_progress) = 0
    /\ ~all_match(pos[w])
    /\ checked_count' = checked_count + 1
    /\ last_progress' = checked_count + 1
    /\ broadcast(w, update_progress(checked_count + 1, total_seeds, now))
    /\ pos' = [pos EXCEPT ![w] = pos[w] + 1]
    /\ UNCHANGED <<reqvars, start_time, cpu_count, pc_main, num_workers, pc, w_start, w_end, result_count,
                   should_stop, results, locked, waiters, ready, connected,
                   resubmitted, prev_found, discarded, raised, gpu_used>>

(* lines 221-223: the seed matches; Lock.acquire takes a free lock without       *)
(* suspending, otherwise the task queues behind the earlier waiters              *)
WorkerMatch(w) ==
    /\ cur = w
    /\ pc[w] = "loop"
    /\ pos[w] <= w_end[w] /\ ~should_stop
    /\ all_match(pos[w])
    /\ IF ~locked /\ waiters = <<>>
       THEN /\ locked' = TRUE
            /\ pc' = [pc EXCEPT ![w] = "locked"]
            /\ UNCHANGED <<waiters, cur>>
       ELSE /\ waiters' = Append(waiters, w)
            /\ pc' = [pc EXCEPT ![w] = "wait_lock"]
            /\ cur' = NoTask
            /\ UNCHANGED locked
    /\ UNCHANGED <<reqvars, start_time, cpu_count, pc_main, num_workers, pos, w_start, w_end, result_count,
                   checked_count, last_progress, should_stop, results, ready,
                   io, connected, events, resubmitted, prev_found, discarded, raised,
                   gpu_used>>

(* Lock.acquire resumes after the wake-up: leave the waiter queue, take the lock *)
WorkerLockGranted(w) ==
    /\ cur = w
    /\ pc[w] = "wait_lock"
    /\ waiters' = SelectSeq(waiters, LAMBDA v : v # w)
    /\ locked' = TRUE
    /\ pc' = [pc EXCEPT ![w] = "locked"]
    /\ UNCHANGED <<reqvars, start_time, cpu_count, pc_main, num_workers, pos, w_start, w_end, result_count,
                   checked_count, last_progress, should_stop, results, ready,
                   cur, io, connected, events, resubmitted, prev_found, discarded,
                   raised, gpu_used>>

(* lines 224-232: under the lock, room left: append and push the found message *)
WorkerAppend(w) ==
    /\ cur = w
    /\ pc[w] = "locked"
    /\ HasRoom
    /\ results' = Append(results, pos[w])
    /\ result_count' = [result_count EXCEPT ![w] = Len(results) + 1]
    /\ broadcast(w, FoundMessage(pos[w]))
    /\ pc' = [pc EXCEPT ![w] = "found_sent"]
    /\ UNCHANGED <<reqvars, start_time, cpu_count, pc_main, num_workers, pos, w_start, w_end, checked_count,
                   last_progress, should_stop, locked, waiters, ready, connected,
                   resubmitted, prev_found, discarded, raised, gpu_used>>

(* lines 239-242: under the lock, list full: set the stop flag and return;       *)
(* leaving the `async with` block releases the lock                              *)
WorkerDiscard(w) ==
    /\ cur = w
    /\ pc[w] = "locked"
    /\ ~HasRoom
    /\ should_stop' = TRUE
    /\ discarded' = discarded \cup {pos[w]}
    /\ locked' = FALSE
    /\ pc' = [pc EXCEPT ![w] = "done"]
    /\ ready' = GatherDone(w, WakeUpFirst(ready))
    /\ cur' = NoTask
    /\ UNCHANGED <<reqvars, start_time, cpu_count, pc_main, num_workers, pos, w_start, w_end, result_count,
                   checked_count, last_progress, results, waiters, io, connected,
                   events, resubmitted, prev_found, raised, gpu_used>>

(* variant: the seed that fills the list is counted before the worker returns *)
WorkerLimitReached_Counted(w) ==
    /\ cur = w
    /\ pc[w] = "found_sent"
    /\ result_count[w] >= output_limit
    /\ should_stop' = TRUE
    /\ locked' = FALSE
    /\ pc' = [pc EXCEPT ![w] = "done"]
    /\ ready' = GatherDone(w, WakeUpFirst(ready))
    /\ cur' = NoTask
    /\ checked_count' = checked_count + 1
    /\ pos' = [pos EXCEPT ![w] = pos[w] + 1]
    /\ UNCHANGED <<reqvars, start_time, cpu_count, pc_main, num_workers, w_start, w_end,
                   result_count, last_progress, results, waiters, io, connected,
                   events, resubmitted, prev_found, discarded, raised, gpu_used>>

(* lines 235-238: the broadcast returned and this append filled the list *)
WorkerLimitReached(w) ==
    /\ cur = w
    /\ pc[w] = "found_sent"
    /\ result_count[w] >= output_limit
    /\ should_stop' = TRUE
    /\ locked' = FALSE
    /\ pc' = [pc EXCEPT ![w] = "done"]
    /\ ready' = GatherDone(w, WakeUpFirst(ready))
    /\ cur' = NoTask
    /\ UNCHANGED <<reqvars, start_time, cpu_count, pc_main, num_workers, pos, w_start, w_end, result_count,
                   checked_count, last_progress, results, waiters, io, connected,
                   events, resubmitted, prev_found, discarded, raised, gpu_used>>

(* lines 235, 245-255: the broadcast returned, the list is not full: release     *)
(* the lock, count the seed, send a progress update when one is due              *)
WorkerContinue(w) ==
    /\ cur = w
    /\ pc[w] = "found_sent"
    /\ ~(result_count[w] >= output_limit)
    /\ locked' = FALSE
    /\ ready' = WakeUpFirst(ready)
    /\ checked_count' = checked_count + 1
    /\ IF ProgressDue(checked_count + 1, last_progress)
       THEN /\ last_progress' = checked_count + 1
            /\ broadcast(w, update_progress(checked_count + 1, total_seeds, now))
       ELSE UNCHANGED <<last_progress, events, io, cur>>
    /\ pos' = [pos EXCEPT ![w] = pos[w] + 1]
    /\ pc' = [pc EXCEPT ![w] = "loop"]
    /\ UNCHANGED <<reqvars, start_time, cpu_count, pc_main, num_workers, w_start, w_end, result_count,
                   should_stop, results, waiters, connected, resubmitted, prev_found,
                   discarded, raised, gpu_used>>

(* ---- specifications ---- *)
Next ==
    \/ handle_search
    \/ Dispatch
    \/ connect
    \/ disconnect
    \/ \E t \in io : SendReturn(t)
    \/ PerformSearchStart
    \/ PerformSearchGpu
    \/ GpuSendFound
    \/ GpuComplete
    \/ PerformSearchCpu
    \/ Gathered
    \/ PerformSearchComplete
    \/ \E w \in Workers : WorkerReturn(w)
    \/ \E w \in Workers : WorkerSkip(w)
    \/ \E w \in Workers : WorkerProgress(w)
    \/ \E w \in Workers : WorkerMatch(w)
    \/ \E w \in Workers : WorkerLockGranted(w)
    \/ \E w \in Workers : WorkerAppend(w)
    \/ \E w \in Workers : WorkerDiscard(w)
    \/ \E w \in Workers : WorkerLimitReached(w)
    \/ \E w \in Workers : WorkerContinue(w)

Spec == Init /\ [][Next]_vars

(* ---- a worker fails ---- *)
(* an exception escapes worker_task while it evaluates a seed (lines 214-219);   *)
(* the task ends with the exception stored, gather(return_exceptions=True)       *)
(* collects it as that task's result                                             *)
WorkerRaise(w) ==
    /\ cur = w
    /\ pc[w] = "loop"
    /\ pos[w] <= w_end[w] /\ ~should_stop
    /\ raised' = raised \cup {w}
    /\ pc' = [pc EXCEPT ![w] = "done"]
    /\ ready' = GatherDone(w, ready)
    /\ cur' = NoTask
    /\ UNCHANGED <<reqvars, start_time, cpu_count, pc_main, num_workers, pos, w_start, w_end, result_count,
                   checked_count, last_progress, should_stop, results, locked,
                   waiters, io, connected, events, resubmitted, prev_found, discarded,
                   gpu_used>>

NextFault ==
    \/ Next
    \/ \E w \in Workers : WorkerRaise(w)

FaultSpec == Init /\ [][NextFault]_vars

(* ---- the request is submitted twice ---- *)
NextRerun ==
    \/ Next
    \/ resubmit

RerunSpec == Init /\ [][NextRerun]_vars

(* ---- worker count and sub-ranges over every row of the table ---- *)
(* range lengths on both sides of each threshold of lines 104-120 *)
WorkerTotals ==
    {2, 3} \cup {b - 1 + d : b \in {SmallRange, MediumRange, LargeRange},
                            d \in Extras}

(* a request without conditions on a machine whose os.cpu_count() is cpu_count;  *)
(* the run is followed until perform_search has created its worker tasks         *)
WorkersInit ==
    /\ start_seed \in {0, MaxStart}
    /\ output_limit = 1
    /\ cpu_count \in 1 .. MaxCores
    /\ has_conditions = FALSE
    /\ gpu_available = FALSE
    /\ \E total \in WorkerTotals : end_seed = start_seed + total - 1
    /\ matches = {}
    /\ gpu_matches = {}
    /\ gpu_fail_batch = 0
    /\ connected = FALSE
    /\ pc_main = "idle"
    /\ num_workers = 0
    /\ pc = <<>>
    /\ pos = <<>>
    /\ w_start = <<>>
    /\ w_end = <<>>
    /\ result_count = <<>>
    /\ checked_count = 0
    /\ last_progress = 0
    /\ should_stop = FALSE
    /\ results = <<>>
    /\ locked = FALSE
    /\ waiters = <<>>
    /\ ready = <<>>
    /\ cur = NoTask
    /\ io = {}
    /\ events = <<>>
    /\ resubmitted = FALSE
    /\ prev_found = <<>>
    /\ discarded = {}
    /\ raised = {}
    /\ gpu_used = FALSE
    /\ PredictorIdle
    /\ CalendarIdle
    /\ ModelsIdle
    /\ ClockIdle

WorkersNext ==
    \/ handle_search
    \/ Dispatch
    \/ PerformSearchStart
    \/ PerformSearchCpu

WorkersSpec == WorkersInit /\ [][WorkersNext]_vars

(* ---- runs long enough for progress updates in both rows of the interval ---- *)
ProgressTotals ==
    {2 * SmallInterval + d : d \in Extras} \cup {SmallRange + d : d \in Extras}

(* a request served by the CPU worker pool: the accelerator is not available *)
ProgressInit ==
    /\ start_seed \in {0, MaxStart}
    /\ output_limit \in 1 .. MaxLimit
    /\ cpu_count = 0
    /\ has_conditions \in BOOLEAN
    /\ gpu_available = FALSE
    /\ \E total \in ProgressTotals :
          /\ end_seed = start_seed + total - 1
          /\ matches \in (IF has_conditions
                          THEN SUBSET Cand(start_seed, total) ELSE {{}})
    /\ gpu_matches = {}
    /\ gpu_fail_batch = 0
    /\ connected = FALSE
    /\ pc_main = "idle"
    /\ num_workers = 0
    /\ pc = <<>>
    /\ pos = <<>>
    /\ w_start = <<>>
    /\ w_end = <<>>
    /\ result_count = <<>>
    /\ checked_count = 0
    /\ last_progress = 0
    /\ should_stop = FALSE
    /\ results = <<>>
    /\ locked = FALSE
    /\ waiters = <<>>
    /\ ready = <<>>
    /\ cur = NoTask
    /\ io = {}
    /\ events = <<>>
    /\ resubmitted = FALSE
    /\ prev_found = <<>>
    /\ discarded = {}
    /\ raised = {}
    /\ gpu_used = FALSE
    /\ PredictorIdle
    /\ CalendarIdle
    /\ ModelsIdle
    /\ ClockIdle

(* the steps of a run on the CPU worker pool *)
ProgressNext ==
    \/ handle_search
    \/ Dispatch
    \/ connect
    \/ disconnect
    \/ \E t \in io : SendReturn(t)
    \/ PerformSearchStart
    \/ PerformSearchCpu
    \/ Gathered
    \/ PerformSearchComplete
    \/ \E w \in Workers : WorkerReturn(w)
    \/ \E w \in Workers : WorkerSkip(w)
    \/ \E w \in Workers : WorkerProgress(w)
    \/ \E w \in Workers : WorkerMatch(w)
    \/ \E w \in Workers : WorkerLockGranted(w)
    \/ \E w \in Workers : WorkerAppend(w)
    \/ \E w \in Workers : WorkerDiscard(w)
    \/ \E w \in Workers : WorkerLimitReached(w)
    \/ \E w \in Workers : WorkerContinue(w)

ProgressSpec == ProgressInit /\ [][ProgressNext]_vars

(* ---- the same runs with the clock running ---- *)
(* time.time() advances by a hundredth of a second *)
Tick ==
    /\ now < MaxTime
    /\ now' = now + 1
    /\ UNCHANGED <<start_seed, end_seed, output_limit, has_conditions, matches,
                   gpu_matches, gpu_available, gpu_fail_batch, predvars, calvars,
                   modelvars, start_time, cpu_count, pc_main, num_workers, pc, pos,
                   w_start, w_end, result_count, checked_count, last_progress,
                   should_stop, results, locked, waiters, ready, cur, io, connected,
                   events, resubmitted, prev_found, discarded, raised, gpu_used>>

TimedNext ==
    \/ ProgressNext
    \/ Tick

TimedSpec == ProgressInit /\ [][TimedNext]_vars

(* ---- the execution mode of a run ---- *)
(* a request on a machine whose accelerator is or is not available, whatever the *)
(* condition set; a kernel may raise in any batch                                *)
ModeInit ==
    /\ start_seed = 0
    /\ output_limit \in 1 .. MaxLimit
    /\ cpu_count = 0
    /\ has_conditions \in BOOLEAN
    /\ gpu_available \in BOOLEAN
    /\ \E total \in (IF has_conditions /\ gpu_available THEN GpuTotals ELSE CpuTotals) :
          /\ end_seed = start_seed + total - 1
          /\ matches \in (IF has_conditions
                          THEN SUBSET Cand(start_seed, total) ELSE {{}})
          /\ gpu_matches = (IF has_conditions /\ gpu_available THEN matches ELSE {})
          /\ gpu_fail_batch \in (IF has_conditions /\ gpu_available
                                 THEN 0 .. NumBatches(start_seed, end_seed) ELSE {0})
    /\ connected = FALSE
    /\ pc_main = "idle"
    /\ num_workers = 0
    /\ pc = <<>>
    /\ pos = <<>>
    /\ w_start = <<>>
    /\ w_end = <<>>
    /\ result_count = <<>>
    /\ checked_count = 0
    /\ last_progress = 0
    /\ should_stop = FALSE
    /\ results = <<>>
    /\ locked = FALSE
    /\ waiters = <<>>
    /\ ready = <<>>
    /\ cur = NoTask
    /\ io = {}
    /\ events = <<>>
    /\ resubmitted = FALSE
    /\ prev_found = <<>>
    /\ discarded = {}
    /\ raised = {}
    /\ gpu_used = FALSE
    /\ PredictorIdle
    /\ CalendarIdle
    /\ ModelsIdle
    /\ ClockIdle

ModeSpec == ModeInit /\ [][Next]_vars

(* ---- fair scheduling ---- *)
(* steps of the event loop, of the tasks of a run and of the transport: the loop *)
(* runs every runnable task, and every send returns                              *)
RunStep ==
    \/ Dispatch
    \/ \E t \in io : SendReturn(t)
    \/ PerformSearchStart
    \/ PerformSearchGpu
    \/ GpuSendFound
    \/ GpuComplete
    \/ PerformSearchCpu
    \/ Gathered
    \/ PerformSearchComplete
    \/ \E w \in Workers : WorkerReturn(w)
    \/ \E w \in Workers : WorkerSkip(w)
    \/ \E w \in Workers : WorkerProgress(w)
    \/ \E w \in Workers : WorkerMatch(w)
    \/ \E w \in Workers : WorkerLockGranted(w)
    \/ \E w \in Workers : WorkerAppend(w)
    \/ \E w \in Workers : WorkerDiscard(w)
    \/ \E w \in Workers : WorkerLimitReached(w)
    \/ \E w \in Workers : WorkerContinue(w)

LiveSpec == Init /\ [][Next]_vars /\ WF_vars(RunStep)

(* ======================= oracle specifications ======================= *)
(* no search request under observation *)
DriverIdle ==
    /\ start_seed = 0
    /\ end_seed = 0
    /\ output_limit = 1
    /\ has_conditions = FALSE
    /\ matches = {}
    /\ gpu_matches = {}
    /\ cpu_count = 0
    /\ gpu_available = FALSE
    /\ gpu_fail_batch = 0
    /\ connected = FALSE
    /\ pc_main = "idle"
    /\ num_workers = 0
    /\ pc = <<>>
    /\ pos = <<>>
    /\ w_start = <<>>
    /\ w_end = <<>>
    /\ result_count = <<>>
    /\ checked_count = 0
    /\ last_progress = 0
    /\ should_stop = FALSE
    /\ results = <<>>
    /\ locked = FALSE
    /\ waiters = <<>>
    /\ ready = <<>>
    /\ cur = NoTask
    /\ io = {}
    /\ events = <<>>
    /\ resubmitted = FALSE
    /\ prev_found = <<>>
    /\ discarded = {}
    /\ raised = {}
    /\ gpu_used = FALSE
    /\ ModelsIdle
    /\ ClockIdle

(* game seeds the oracle is probed with *)
ProbeSeeds == (0 .. MaxProbe) \cup {int32_max}

(* ---- one calendar day under the CPU oracle and under the kernel ---- *)
CalendarInit ==
    /\ DriverIdle
    /\ conditions = <<>>
    /\ enabled = TRUE
    /\ weather_cache = <<>>
    /\ use_legacy_random \in BOOLEAN
    /\ call = "none"
    /\ call_seed \in ProbeSeeds
    /\ ret = FALSE
    /\ rng_seed = 0
    /\ rng_ret = 0
    /\ weather_of = <<>>
    /\ CalendarIdle

(* _is_rainy_day as predict_weather calls it for absolute day d (lines 121-125) *)
IsRainyDayCpu(d) ==
    /\ abs_day' = d
    /\ cpu_rule' = fixed_rule((d - 1) \div 28, ((d - 1) % 28) + 1,
                              green_rain_day(call_seed, use_legacy_random))
    /\ gpu_rule' = "none"
    /\ UNCHANGED <<drivervars, predvars, mixvars>>

(* is_rainy_day_gpu as the kernel calls it for the same day (lines 334-338) *)
IsRainyDayGpu ==
    /\ abs_day >= 1
    /\ gpu_rule = "none"
    /\ gpu_rule' = fixed_rule_gpu((abs_day - 1) \div 28, ((abs_day - 1) % 28) + 1,
                                  call_seed, use_legacy_random)
    /\ UNCHANGED <<drivervars, predvars, abs_day, cpu_rule, mixvars>>

CalendarNext ==
    \/ \E d \in 1 .. 84 : IsRainyDayCpu(d)
    \/ IsRainyDayGpu

CalendarSpec == CalendarInit /\ [][CalendarNext]_vars

(* ---- one WeatherPredictor object and the calls made on it ---- *)
Seasons == {"Spring", "Summer", "Fall"}

WeatherCondition(season, start_day, end_day, min_rain_days) ==
    [season |-> season, start_day |-> start_day, end_day |-> end_day,
     min_rain_days |-> min_rain_days]

(* the clauses of the probed condition lists: the first ten days of a season *)
Clauses(season) == {WeatherCondition(season, 1, 10, k) : k \in 1 .. MaxMinRain}

ConditionLists ==
    {<<>>}
    \cup {<<c>> : c \in Clauses("Spring") \cup Clauses("Summer") \cup Clauses("Fall")}
    \cup {<<WeatherCondition("Spring", 1, 10, k), WeatherCondition(s, 1, 10, k)>> :
              k \in 1 .. MaxMinRain, s \in {"Summer", "Fall"}}

(* a predictor is constructed and loaded with the conditions of a request        *)
(* (handlers.py 46-60, gpu_pure_accelerator.py 567-571).  weather_of tabulates   *)
(* predict_weather on the probe seeds once; the calls read the table.            *)
PredictorInit ==
    /\ DriverIdle
    /\ CalendarIdle
    /\ conditions \in ConditionLists
    /\ enabled = TRUE
    /\ weather_cache = <<>>
    /\ use_legacy_random = FALSE
    /\ call = "none"
    /\ call_seed = 0
    /\ ret = FALSE
    /\ rng_seed = 0
    /\ rng_ret = 0
    /\ weather_of = [s \in ProbeSeeds |-> [l \in BOOLEAN |-> predict_weather(s, l)]]

set_enabled(b) ==
    /\ enabled' = b
    /\ call' = "set_enabled"
    /\ UNCHANGED <<drivervars, calvars, conditions, weather_cache, use_legacy_random,
                   call_seed, ret, rng_seed, rng_ret, weather_of>>

(* the days predict_weather(seed, legacy) decides: read from the table when the  *)
(* seed is tabulated                                                             *)
all_weather(seed, legacy) ==
    IF seed \in DOMAIN weather_of THEN weather_of[seed][legacy]
    ELSE predict_weather(seed, legacy)

(* line 111: self._weather_cache.clear() *)
cache_cleared(cache) == <<>>

(* lines 120-126: one entry written per absolute day, other keys are kept *)
cache_written(cache, weather) ==
    [d \in (DOMAIN cache) \cup (1 .. 84) |->
        IF d \in 1 .. 84 THEN weather[d] ELSE cache[d]]

(* variant: a filled cache is taken for the answer, whatever seed filled it *)
predict_weather_on_Memo(cache, seed, legacy) ==
    IF cache # <<>> THEN cache ELSE all_weather(seed, legacy)

(* the dictionary predict_weather(seed, legacy) leaves in, and returns from, a   *)
(* predictor whose _weather_cache held cache (lines 108-128)                     *)
predict_weather_on(cache, seed, legacy) ==
    cache_written(cache_cleared(cache), all_weather(seed, legacy))

(* WeatherPredictor.predict_weather(seed, legacy): the cache is cleared and refilled *)
PredictWeather(seed, legacy) ==
    /\ weather_cache' = predict_weather_on(weather_cache, seed, legacy)
    /\ call' = "predict_weather"
    /\ call_seed' = seed
    /\ use_legacy_random' = legacy
    /\ UNCHANGED <<drivervars, calvars, conditions, enabled, ret, rng_seed, rng_ret,
                   weather_of>>


(* what WeatherPredictor.check(seed, legacy) does to the predictor *)
check_call(seed, legacy) ==
    /\ IF conditions = <<>>
       THEN /\ ret' = TRUE
            /\ UNCHANGED weather_cache
       ELSE /\ weather_cache' = predict_weather_on(weather_cache, seed, legacy)
            /\ ret' = conditions_met(conditions, weather_cache')
    /\ call' = "check"
    /\ call_seed' = seed
    /\ use_legacy_random' = legacy
    /\ UNCHANGED <<conditions, enabled, rng_seed, rng_ret, weather_of>>

(* WeatherPredictor.check(seed, legacy) called on the object *)
check(seed, legacy) ==
    /\ check_call(seed, legacy)
    /\ UNCHANGED <<drivervars, calvars>>

PredictorNext ==
    \/ \E b \in BOOLEAN : set_enabled(b)
    \/ \E seed \in ProbeSeeds, legacy \in BOOLEAN : PredictWeather(seed, legacy)
    \/ \E seed \in ProbeSeeds, legacy \in BOOLEAN : check(seed, legacy)

PredictorSpec == PredictorInit /\ [][PredictorNext]_vars

(* ---- one PureGPUSeedSearcher object and the calls made on it ---- *)
(* the variables a searcher call leaves alone *)
searcher_idle == <<start_seed, end_seed, output_limit, has_conditions,
                   matches, gpu_matches, cpu_count, gpu_available, gpu_fail_batch,
                   num_workers, pc, pos, w_start, w_end, result_count,
                   last_progress, should_stop, locked, waiters, ready, cur, io,
                   connected, events, resubmitted, prev_found, discarded, raised,
                   modelvars, now, start_time>>

(* PureGPUSeedSearcher(conditions, use_legacy_random) is constructed and is about *)
(* to be called with (start_seed, end_seed, output_limit).  matches holds the     *)
(* seeds of the range WeatherPredictor.check accepts; gpu_matches the lanes the   *)
(* kernel sets to 1: every lane when there is no condition (the loop of lines     *)
(* 324-349 has no iteration), else the accepted seeds give or take one lane.      *)
SearcherInit ==
    /\ weather_of = [s \in 0 .. (MaxStart + MaxLimit) |->
                        [l \in BOOLEAN |-> predict_weather(s, l)]]
    /\ CalendarIdle
    /\ conditions \in ConditionLists
    /\ use_legacy_random \in BOOLEAN
    /\ has_conditions = (conditions # <<>>)
    /\ start_seed \in {0, MaxStart}
    /\ output_limit \in 1 .. MaxLimit
    /\ end_seed \in start_seed .. (start_seed + MaxLimit)
    /\ matches = {s \in start_seed .. end_seed :
                      conditions_met(conditions, weather_of[s][use_legacy_random])}
    /\ gpu_available \in BOOLEAN
    /\ gpu_matches \in (IF ~gpu_available THEN {{}}
                        ELSE IF has_conditions
                             THEN Near(matches, start_seed .. end_seed)
                             ELSE {start_seed .. end_seed})
    /\ gpu_fail_batch \in (IF gpu_available THEN {0, 1} ELSE {0})
    /\ enabled = TRUE
    /\ weather_cache = <<>>
    /\ call = "none"
    /\ call_seed = 0
    /\ ret = FALSE
    /\ rng_seed = 0
    /\ rng_ret = 0
    /\ cpu_count = 0
    /\ connected = FALSE
    /\ pc_main = "idle"
    /\ num_workers = 0
    /\ pc = <<>>
    /\ pos = <<>>
    /\ w_start = <<>>
    /\ w_end = <<>>
    /\ result_count = <<>>
    /\ checked_count = 0
    /\ last_progress = 0
    /\ should_stop = FALSE
    /\ results = <<>>
    /\ locked = FALSE
    /\ waiters = <<>>
    /\ ready = <<>>
    /\ cur = NoTask
    /\ io = {}
    /\ events = <<>>
    /\ resubmitted = FALSE
    /\ prev_found = <<>>
    /\ discarded = {}
    /\ raised = {}
    /\ gpu_used = FALSE
    /\ ModelsIdle
    /\ ClockIdle

(* search_seeds_pure_gpu(start_seed, end_seed, output_limit), lines 492-561: the  *)
(* batch loop when the accelerator is available and no batch raises, else the    *)
(* CPU fallback over the whole range                                             *)
SearchPureGpu ==
    /\ pc_main = "idle"
    /\ IF gpu_available /\ gpu_fail_batch = 0
       THEN /\ results' = gpu_batch_loop(start_seed, end_seed, output_limit,
                                         start_seed, 1, <<>>)
            /\ pc_main' = "done"
            /\ gpu_used' = TRUE
       ELSE /\ results' = <<>>
            /\ pc_main' = "fallback"
            /\ gpu_used' = FALSE
    /\ call' = "search_seeds_pure_gpu"
    /\ UNCHANGED <<searcher_idle, calvars, checked_count, conditions, enabled,
                   weather_cache, use_legacy_random, call_seed, ret, rng_seed,
                   rng_ret, weather_of>>

(* _search_seeds_cpu_fallback(start_seed, end_seed, output_limit) called directly *)
SearchCpuFallback ==
    /\ pc_main = "idle"
    /\ results' = <<>>
    /\ pc_main' = "fallback"
    /\ call' = "_search_seeds_cpu_fallback"
    /\ UNCHANGED <<searcher_idle, calvars, checked_count, gpu_used, conditions,
                   enabled, weather_cache, use_legacy_random, call_seed, ret,
                   rng_seed, rng_ret, weather_of>>

(* one iteration of the loop of lines 573-579; checked_count counts the          *)
(* iterations made, so the loop variable is start_seed + checked_count           *)
FallbackStep ==
    /\ pc_main = "fallback"
    /\ IF start_seed + checked_count > end_seed \/ Len(results) >= output_limit
       THEN /\ pc_main' = "done"
            /\ UNCHANGED <<predvars, results, checked_count>>
       ELSE /\ check_call(start_seed + checked_count, use_legacy_random)
            /\ results' = IF ret' THEN Append(results, start_seed + checked_count)
                           ELSE results
            /\ checked_count' = checked_count + 1
            /\ UNCHANGED pc_main
    /\ UNCHANGED <<searcher_idle, calvars, gpu_used>>

SearcherNext ==
    \/ SearchPureGpu
    \/ SearchCpuFallback
    \/ FallbackStep

SearcherSpec == SearcherInit /\ [][SearcherNext]_vars

(* ---- the RNG helpers of WeatherPredictor called on their own ---- *)
(* the seeds the helpers are called with: small seeds of both signs, the ends of *)
(* the signed 32-bit range, and the seeds predict_weather mixes for the green    *)
(* rain day and the first draws                                                  *)
RngSeeds ==
    ((0 - MaxRngSeed) .. MaxRngSeed)
    \cup {MinInt32, MinInt32 + 1, int32_max - 1, int32_max}
    \cup {get_random_seed(777, g, 0, 0, 0, FALSE) : g \in 0 .. MaxRngSeed}
    \cup {get_random_seed(location_weather_hash, g, 5, 0, 0, FALSE) :
              g \in 0 .. MaxRngSeed}

RngInit ==
    /\ DriverIdle
    /\ PredictorIdle
    /\ CalendarIdle

rng_idle == <<drivervars, calvars, conditions, enabled, weather_cache,
              use_legacy_random, call_seed, ret, weather_of>>

(* _get_first_rand(seed) *)
GetFirstRand(seed) ==
    /\ call' = "_get_first_rand"
    /\ rng_seed' = seed
    /\ rng_ret' = get_first_rand(seed)
    /\ UNCHANGED rng_idle

(* _random_next(seed, len(green_rain_days)) *)
RandomNext(seed) ==
    /\ call' = "_random_next"
    /\ rng_seed' = seed
    /\ rng_ret' = random_next(seed, Len(green_rain_days))
    /\ UNCHANGED rng_idle

(* lines 116-119 of predict_weather: the green rain day of a game seed *)
GreenRainDay(game_id, legacy) ==
    /\ call' = IF legacy THEN "green_rain_day_legacy" ELSE "green_rain_day"
    /\ rng_seed' = game_id
    /\ rng_ret' = green_rain_day(game_id, legacy)
    /\ UNCHANGED rng_idle

RngNext ==
    \/ \E seed \in RngSeeds : GetFirstRand(seed)
    \/ \E seed \in RngSeeds : RandomNext(seed)
    \/ \E game_id \in (0 .. MaxRngSeed) \cup {int32_max}, legacy \in BOOLEAN :
          GreenRainDay(game_id, legacy)

RngSpec == RngInit /\ [][RngNext]_vars

(* ---- seed mixing on the CPU and in the kernel ---- *)
(* the integers get_random_seed is called with: small ones of both signs, the    *)
(* ends of the signed 32-bit range, the modulus and its neighbours               *)
MixVals ==
    ((0 - MaxMixArg) .. MaxMixArg)
    \cup {MinInt32, 0 - int32_max, int32_max - 1, int32_max, 777}

MixTuples ==
    {<<a, b, c, 0, 0>> : a \in MixVals, b \in MixVals, c \in MixVals}
    \cup {<<0, 0, 0, d, e>> : d \in MixVals, e \in MixVals}
    \cup {<<1, 2, 3, 4, 5>>, <<0, 1, 2, 3, 4>>, <<100, 200, 300, 400, 500>>}

MixInit ==
    /\ DriverIdle
    /\ PredictorIdle
    /\ CalendarIdle

mix_idle == <<drivervars, conditions, enabled, weather_cache, ret, rng_seed,
              rng_ret, weather_of, cpu_rule, gpu_rule>>

(* HashHelper.get_random_seed(a, b, c, d, e, use_legacy_random) *)
GetRandomSeed(t, legacy) ==
    /\ call' = "get_random_seed"
    /\ mix_args' = t
    /\ use_legacy_random' = legacy
    /\ cpu_seed' = get_random_seed(t[1], t[2], t[3], t[4], t[5], legacy)
    /\ gpu_seed' = <<>>
    /\ UNCHANGED <<mix_idle, call_seed, abs_day>>

(* predict_weather mixes the green rain seed of a game seed (features.py 116) *)
GreenRainSeed(game_id, legacy) ==
    /\ call' = "green_rain_seed"
    /\ call_seed' = game_id
    /\ abs_day' = 0
    /\ use_legacy_random' = legacy
    /\ mix_args' = <<777, game_id, 0, 0, 0>>
    /\ cpu_seed' = get_random_seed(777, game_id, 0, 0, 0, legacy)
    /\ gpu_seed' = <<>>
    /\ UNCHANGED mix_idle

(* _is_rainy_day mixes the seed of the draw of absolute day d, a day none of its  *)
(* fixed rules decides                                                           *)
RainSeed(game_id, d, legacy) ==
    /\ fixed_rule((d - 1) \div 28, ((d - 1) % 28) + 1,
                  green_rain_day(game_id, legacy)) = "draw"
    /\ call' = "rain_seed"
    /\ call_seed' = game_id
    /\ abs_day' = d
    /\ use_legacy_random' = legacy
    /\ mix_args' = IF (d - 1) \div 28 = 1
                   THEN <<d - 1, game_id \div 2, summer_rain_chance_hash, 0, 0>>
                   ELSE <<location_weather_hash, game_id, d - 1, 0, 0>>
    /\ cpu_seed' = rain_seed((d - 1) \div 28, d, game_id, legacy)
    /\ gpu_seed' = <<>>
    /\ UNCHANGED mix_idle

(* the kernel mixes the seed of the same call (gpu_pure_accelerator.py 268, 287,  *)
(* 301)                                                                          *)
KernelSeed ==
    /\ call \in {"green_rain_seed", "rain_seed"}
    /\ gpu_seed = <<>>
    /\ gpu_seed' = IF call = "green_rain_seed"
                   THEN get_random_seed_gpu(ToWord(777), ToWord(call_seed), <<0, 0>>,
                                            <<0, 0>>, <<0, 0>>, use_legacy_random)
                   ELSE rain_seed_gpu((abs_day - 1) \div 28, abs_day, call_seed,
                                      use_legacy_random)
    /\ UNCHANGED <<mix_idle, call, call_seed, abs_day, use_legacy_random, mix_args,
                   cpu_seed>>

(* one seed is mixed, then the kernel mixes it if it is one of the oracle's *)
MixNext ==
    \/ /\ call = "none"
       /\ \E t \in MixTuples, legacy \in BOOLEAN : GetRandomSeed(t, legacy)
    \/ /\ call = "none"
       /\ \E game_id \in ProbeSeeds, legacy \in BOOLEAN :
             GreenRainSeed(game_id, legacy)
    \/ /\ call = "none"
       /\ \E game_id \in ProbeSeeds, d \in 1 .. 84, legacy \in BOOLEAN :
             RainSeed(game_id, d, legacy)
    \/ KernelSeed

MixSpec == MixInit /\ [][MixNext]_vars

(* ---- the sample scan of the consistency tests ---- *)
sample_end == 1000
expected_seeds_sample1 == <<59, 73, 101, 142, 659, 932, 938>>

(* a predictor with the clause (Spring, 1..10, at least 5 rainy days) is scanned  *)
(* over 0 .. sample_end with legacy off, as the loop of                           *)
(* test_sample1_consistency does; no result limit stops the scan and nothing is   *)
(* tabulated                                                                      *)
SampleInit ==
    /\ weather_of = <<>>
    /\ CalendarIdle
    /\ ModelsIdle
    /\ conditions = <<WeatherCondition("Spring", 1, 10, 5)>>
    /\ use_legacy_random = FALSE
    /\ has_conditions = TRUE
    /\ start_seed = 0
    /\ end_seed = sample_end
    /\ output_limit = sample_end + 1
    /\ matches = {}
    /\ gpu_available = FALSE
    /\ gpu_matches = {}
    /\ gpu_fail_batch = 0
    /\ enabled = TRUE
    /\ weather_cache = <<>>
    /\ call = "none"
    /\ call_seed = 0
    /\ ret = FALSE
    /\ rng_seed = 0
    /\ rng_ret = 0
    /\ cpu_count = 0
    /\ connected = FALSE
    /\ pc_main = "idle"
    /\ num_workers = 0
    /\ pc = <<>>
    /\ pos = <<>>
    /\ w_start = <<>>
    /\ w_end = <<>>
    /\ result_count = <<>>
    /\ checked_count = 0
    /\ last_progress = 0
    /\ should_stop = FALSE
    /\ results = <<>>
    /\ locked = FALSE
    /\ waiters = <<>>
    /\ ready = <<>>
    /\ cur = NoTask
    /\ io = {}
    /\ events = <<>>
    /\ resubmitted = FALSE
    /\ prev_found = <<>>
    /\ discarded = {}
    /\ raised = {}
    /\ gpu_used = FALSE
    /\ ClockIdle

SampleSpec == SampleInit /\ [][SearcherNext]_vars

(* ---- construction of the request models (models.py) ---- *)
(* variant: a condition asking for as many rainy days as the range has days is   *)
(* accepted                                                                      *)
WeatherCondition_error_AllowEqual(start_day, end_day, min_rain_days) ==
    IF start_day < 1 \/ start_day > 28 \/ end_day < 1 \/ end_day > 28
       \/ min_rain_days < 1
    THEN "ValidationError"
    ELSE IF start_day > end_day THEN "ValueError"
    ELSE IF min_rain_days > end_day - start_day + 1 THEN "ValueError"
    ELSE "none"

(* what WeatherCondition(season, start_day, end_day, min_rain_days) raises: the   *)
(* Field constraints of lines 21-24, then model_post_init, lines 26-37            *)
WeatherCondition_error(start_day, end_day, min_rain_days) ==
    IF start_day < 1 \/ start_day > 28 \/ end_day < 1 \/ end_day > 28
       \/ min_rain_days < 1
    THEN "ValidationError"
    ELSE IF start_day > end_day THEN "ValueError"
    ELSE IF min_rain_days > end_day - start_day + 1 THEN "ValueError"
    ELSE IF min_rain_days = end_day - start_day + 1 THEN "ValueError"
    ELSE "none"

DayArgs == 0 .. MaxDayArg

NewWeatherCondition(season, start_day, end_day, min_rain_days) ==
    LET err == WeatherCondition_error(start_day, end_day, min_rain_days)
    IN /\ args' = [season |-> season, start_day |-> start_day, end_day |-> end_day,
                    min_rain_days |-> min_rain_days]
       /\ built' = [model |-> "WeatherCondition", error |-> err,
                     value |-> IF err = "none"
                               THEN WeatherCondition(season, start_day, end_day,
                                                     min_rain_days)
                               ELSE <<>>]
       /\ UNCHANGED <<start_seed, end_seed, output_limit, has_conditions, matches,
                      gpu_matches, cpu_count, gpu_available, gpu_fail_batch, pc_main,
                      num_workers, pc, pos, w_start, w_end, result_count,
                      checked_count, last_progress, should_stop, results, locked,
                      waiters, ready, cur, io, connected, events, resubmitted,
                      prev_found, discarded, raised, gpu_used, predvars, calvars,
                      now, start_time>>

(* a Python integer n as <<q, r>> with n = q * 2^31 + r and 0 <= r < 2^31 *)
PyInt(n) == IF n < 0 THEN <<0 - 1, (int32_max + n) + 1>> ELSE <<0, n>>
TwoTo31 == <<1, 0>>
IntLess(a, b) == a[1] < b[1] \/ (a[1] = b[1] /\ a[2] < b[2])

(* variant: only an inverted range is refused *)
SearchRequest_error_AllowEqual(start, end, limit) ==
    IF IntLess(start, PyInt(0)) \/ IntLess(end, PyInt(0))
       \/ IntLess(PyInt(int32_max), end) \/ limit < 1
    THEN "ValidationError"
    ELSE IF IntLess(end, start) THEN "ValueError"
    ELSE "none"

(* what SearchRequest(start_seed, end_seed, output_limit) raises: the Field       *)
(* constraints of lines 62-66 inside super().__init__, then the test of line 70   *)
SearchRequest_error(start, end, limit) ==
    IF IntLess(start, PyInt(0)) \/ IntLess(end, PyInt(0))
       \/ IntLess(PyInt(int32_max), end) \/ limit < 1
    THEN "ValidationError"
    ELSE IF ~IntLess(start, end) THEN "ValueError"
    ELSE "none"

SeedArgs ==
    {PyInt(n) : n \in (0 - 1) .. MaxSeedArg}
    \cup {PyInt(int32_max - 1), PyInt(int32_max), TwoTo31}

(* outputLimit as posted; the field defaults to 20 *)
LimitArgs == (0 - 1) .. 2
default_output_limit == 20

NewSearchRequest(start, end, limit_given, limit, legacy, conds) ==
    LET lim == IF limit_given THEN limit ELSE default_output_limit
        err == SearchRequest_error(start, end, lim)
    IN /\ args' = [start_seed |-> start, end_seed |-> end,
                    output_limit |-> IF limit_given THEN <<limit>> ELSE <<>>]
       /\ built' = [model |-> "SearchRequest", error |-> err,
                     value |-> IF err = "none"
                               THEN [start_seed |-> start[2], end_seed |-> end[2],
                                     use_legacy_random |-> legacy,
                                     weather_conditions |-> conds,
                                     output_limit |-> lim]
                               ELSE <<>>]
       /\ UNCHANGED <<start_seed, end_seed, output_limit, has_conditions, matches,
                      gpu_matches, cpu_count, gpu_available, gpu_fail_batch, pc_main,
                      num_workers, pc, pos, w_start, w_end, result_count,
                      checked_count, last_progress, should_stop, results, locked,
                      waiters, ready, cur, io, connected, events, resubmitted,
                      prev_found, discarded, raised, gpu_used, predvars, calvars,
                      now, start_time>>

(* POST /api/search with a body that parsed into a SearchRequest: handle_search   *)
(* creates the perform_search task on it (handlers.py 33-41)                      *)
PostSearch ==
    /\ pc_main = "idle"
    /\ built.model = "SearchRequest"
    /\ built.error = "none"
    /\ start_seed' = built.value.start_seed
    /\ end_seed' = built.value.end_seed
    /\ output_limit' = built.value.output_limit
    /\ use_legacy_random' = built.value.use_legacy_random
    /\ conditions' = built.value.weather_conditions
    /\ has_conditions' = (built.value.weather_conditions # <<>>)
    /\ pc_main' = "begin"
    /\ ready' = <<Driver>>
    /\ UNCHANGED <<matches, gpu_matches, cpu_count, gpu_available, gpu_fail_batch,
                   num_workers, pc, pos, w_start, w_end, result_count,
                   checked_count, last_progress, should_stop, results, locked,
                   waiters, cur, io, connected, events, resubmitted,
                   prev_found, discarded, raised, gpu_used, enabled, weather_cache,
                   call, call_seed, ret, rng_seed, rng_ret, weather_of, calvars,
                   modelvars, now, start_time>>

ModelsInit ==
    /\ DriverIdle
    /\ PredictorIdle
    /\ CalendarIdle

(* one model is constructed from posted values, then posted if it is a request *)
ModelsNext ==
    \/ /\ built = NotBuilt
       /\ \E season \in Seasons, start_day \in DayArgs, end_day \in DayArgs,
             min_rain_days \in DayArgs :
             NewWeatherCondition(season, start_day, end_day, min_rain_days)
    \/ /\ built = NotBuilt
       /\ \E start \in SeedArgs, end \in SeedArgs, limit_given \in BOOLEAN,
             limit \in LimitArgs, legacy \in BOOLEAN,
             conds \in {<<>>, <<WeatherCondition("Spring", 1, 10, 5)>>} :
             NewSearchRequest(start, end, limit_given, limit, legacy, conds)
    \/ PostSearch

ModelsSpec == ModelsInit /\ [][ModelsNext]_vars

(* ======================= properties ======================= *)
(* M: the seeds of [start_seed, end_seed] that satisfy all conditions *)
MatchSet ==
    IF has_conditions THEN {m \in matches : start_seed <= m /\ m <= end_seed}
    ELSE start_seed .. end_seed

MatchCount ==
    IF has_conditions THEN Cardinality(MatchSet) ELSE total_seeds

MatchesBelow(x) ==
    IF has_conditions THEN {m \in matches : start_seed <= m /\ m < x}
    ELSE start_seed .. (x - 1)

FoundSet == Range(FoundSeq)

Ascending(s) == \A i \in 1 .. (Len(s) - 1) : s[i] < s[i + 1]

RunDone == pc_main = "done"
CpuRunDone == RunDone /\ ~gpu_used

(* C1: when a CPU worker-pool run completes, the seeds sent as found events are  *)
(* exactly the min(output_limit, |M|) smallest members of M.                     *)
C1_SmallestReported ==
    CpuRunDone =>
        /\ FoundSet \subseteq MatchSet
        /\ Cardinality(FoundSet) = Min2(output_limit, MatchCount)
        /\ \A f \in FoundSet : MatchesBelow(f) \subseteq FoundSet

(* C2: within one run the found events are emitted in strictly ascending seed    *)
(* order, whatever the number of workers and their interleaving.                 *)
C2_FoundAscending == Ascending(FoundSeq)

(* C3: the output cap is never exceeded: the match list and the found events     *)
(* never number more than output_limit, and a match found while the list is full *)
(* is neither appended nor broadcast (this covers the list returned by           *)
(* search_seeds_pure_gpu, which becomes the match list of the accelerator path). *)
C3_CapNeverExceeded ==
    /\ Len(results) <= output_limit
    /\ Len(FoundSeq) <= output_limit
    /\ discarded \cap Range(results) = {}
    /\ discarded \cap FoundSet = {}

C3_Witness ==
    /\ pc_main = "gather"
    /\ discarded # {}
    /\ Len(FoundSeq) = output_limit

(* C4: every run emits exactly one start event, first and with                   *)
(* total = end_seed - start_seed + 1, and exactly one complete event, last;      *)
(* found and progress events lie between them.                                   *)
C4_StartFirstCompleteLast ==
    /\ pc_main \notin {"idle", "begin"} =>
           /\ Len(events) >= 1
           /\ events[1] = [type |-> "start", total |-> end_seed - start_seed + 1]
    /\ \A i \in 2 .. Len(events) : events[i].type # "start"
    /\ \A i \in 1 .. Len(events) :
           events[i].type = "complete" => (i = Len(events) /\ i > 1 /\ RunDone)
    /\ RunDone => events[Len(events)].type = "complete"

C4_Witness ==
    /\ RunDone
    /\ has_conditions /\ ~gpu_available /\ ~gpu_used
    /\ \E i \in 1 .. Len(events) : events[i].type = "found"
    /\ \E i \in 1 .. (Len(events) - 2) : events[i].type = "progress"

(* C5: totalFound of the complete event equals the number of found events of     *)
(* the run and the length of the match list, however the run ended.              *)
C5_TotalFoundIsCount ==
    RunDone =>
        /\ events[Len(events)].totalFound = Len(FoundSeq)
        /\ events[Len(events)].totalFound = Len(results)

C5_Witness ==
    /\ CpuRunDone
    /\ should_stop
    /\ Len(FoundSeq) >= 2
    /\ MatchCount > output_limit

(* C6: every run terminates: under fair scheduling and returning sends a started *)
(* run eventually emits its complete event; since perform_search gets there only *)
(* after gather has collected every worker, no worker is left waiting for the    *)
(* results lock.                                                                 *)
C6_RunTerminates == (pc_main = "begin") ~> (pc_main = "done")

C6_Witness ==
    /\ CpuRunDone
    /\ num_workers >= 2
    /\ connected
    /\ discarded # {}

(* C7: if a CPU worker raises, the run is aborted: the other workers are told to *)
(* stop, the complete event carries an error marker and reports no matches.      *)
C7_WorkerFailureAborts ==
    /\ raised # {} => (should_stop \/ \A w \in Workers : pc[w] = "done")
    /\ (RunDone /\ raised # {}) =>
           /\ "error" \in DOMAIN events[Len(events)]
           /\ events[Len(events)].totalFound = 0

(* C8: accelerator failure is transparent: when the accelerator is unavailable   *)
(* or a batch fails, the run ends with exactly one complete event and reports    *)
(* min(output_limit, |M|) distinct seeds, all CPU matches; nothing gathered by   *)
(* the accelerator before the failure is kept, and after a batch failure the     *)
(* report is the ascending CPU scan of the whole range.                          *)
GpuFailureReached ==
    /\ gpu_available
    /\ gpu_fail_batch >= 1
    /\ Cardinality({m \in gpu_matches :
                       m - start_seed < (gpu_fail_batch - 1) * batch_size})
           < output_limit

AcceleratorFailed == has_conditions /\ (~gpu_available \/ GpuFailureReached)

C8_FallbackTransparent ==
    (RunDone /\ AcceleratorFailed) =>
        /\ Cardinality({i \in 1 .. Len(events) : events[i].type = "complete"}) = 1
        /\ FoundSet \subseteq MatchSet
        /\ Cardinality(FoundSet) = Len(FoundSeq)
        /\ Len(FoundSeq) = Min2(output_limit, MatchCount)
        /\ gpu_used =>
               /\ Ascending(FoundSeq)
               /\ \A f \in FoundSet : MatchesBelow(f) \subseteq FoundSet

C8_Witness ==
    /\ RunDone /\ gpu_used
    /\ gpu_fail_batch = 2 /\ GpuFailureReached
    /\ \E m \in gpu_matches \ matches : m - start_seed < batch_size
    /\ Len(FoundSeq) >= 1

(* C9: two runs of the same request emit the same sequence of found seeds (and   *)
(* hence the same totalFound).                                                   *)
C9_SameOutputTwice ==
    (RunDone /\ resubmitted) => FoundSeq = prev_found

(* C10: the workers' sub-ranges are disjoint, contiguous, non-empty and cover    *)
(* [start_seed, end_seed]; workers 0..n-2 get floor(total/n) seeds, the last the *)
(* rest; when fewer than output_limit seeds match, every seed is evaluated once  *)
(* and exactly the matching seeds of the whole range are reported.               *)
C10_PartitionCovers ==
    /\ num_workers > 0 =>
           /\ w_start[0] = start_seed
           /\ w_end[num_workers - 1] = end_seed
           /\ \A i \in Workers : w_start[i] <= w_end[i]
           /\ \A i \in 0 .. (num_workers - 2) :
                  /\ w_start[i + 1] = w_end[i] + 1
                  /\ w_end[i] - w_start[i] + 1 = total_seeds \div num_workers
    /\ (CpuRunDone /\ MatchCount < output_limit) =>
           /\ FoundSet = MatchSet
           /\ Len(FoundSeq) = MatchCount
           /\ checked_count = total_seeds
           /\ \A i \in Workers : pos[i] = w_end[i] + 1

C10_Witness ==
    /\ CpuRunDone
    /\ num_workers = 2
    /\ total_seeds % 2 = 1
    /\ MatchCount < output_limit
    /\ end_seed \in MatchSet

(* C11: search_seeds_pure_gpu tiles [start_seed, end_seed] into consecutive,     *)
(* disjoint batches of at most 100,000,000 seeds taken in ascending order, goes  *)
(* on exactly while fewer than output_limit kernel matches have been gathered,   *)
(* and returns the min(output_limit, |M|) smallest seeds whose kernel bit is     *)
(* set, ascending; when a batch fails, its CPU fallback returns the              *)
(* min(output_limit, |M|) smallest seeds accepted by check, ascending.           *)
GpuMatchSet == {m \in gpu_matches : start_seed <= m /\ m <= end_seed}

KernelCountUpTo(x) == Cardinality({m \in GpuMatchSet : m <= x})

CompletedBatches == gpu_batches(end_seed, output_limit, start_seed, 1, 0)

C11_GpuSearchContract ==
    gpu_used =>
        LET B == CompletedBatches
        IN /\ \A i \in 1 .. Len(B) :
                  /\ B[i][1] <= B[i][2]
                  /\ B[i][2] - B[i][1] + 1 <= 100000000
                  /\ B[i][2] <= end_seed
                  /\ i = 1 => B[i][1] = start_seed
                  /\ i > 1 => B[i][1] = B[i - 1][2] + 1
                  /\ i < Len(B) => KernelCountUpTo(B[i][2]) < output_limit
           /\ ~GpuFailureReached =>
                  /\ B # <<>>
                  /\ \/ B[Len(B)][2] = end_seed
                     \/ KernelCountUpTo(B[Len(B)][2]) >= output_limit
                  /\ results = Take(SortedSeq(GpuMatchSet), output_limit)
           /\ GpuFailureReached =>
                  results = Take(SortedSeq(MatchSet), output_limit)

C11_Witness ==
    /\ gpu_used
    /\ ~GpuFailureReached
    /\ Len(CompletedBatches) = 2
    /\ output_limit >= 2
    /\ Len(results) = output_limit
    /\ results[Len(results)] - start_seed >= batch_size

(* C12: the kernel and the CPU oracle apply the same fixed calendar rules: on     *)
(* every day, for every seed and legacy flag, is_rainy_day_gpu returns early     *)
(* exactly when _is_rainy_day does, and with the same value.                     *)
C12_SameCalendarRules ==
    gpu_rule # "none" => gpu_rule = cpu_rule

(* C13: whatever the seed and the legacy flag, the vector predict_weather leaves  *)
(* has exactly the keys 1..84; day 1 of each season is dry, spring day 3 is      *)
(* rain, spring days 13 and 24, summer days 11 and 28 and fall days 16 and 27    *)
(* are dry, summer days 13 and 26 are rain.                                      *)
C13_FixedDays ==
    weather_cache # <<>> =>
        /\ DOMAIN weather_cache = 1 .. 84
        /\ \A d \in {1, 29, 57} : ~weather_cache[d]
        /\ weather_cache[3]
        /\ \A d \in {13, 24, 28 + 11, 28 + 28, 56 + 16, 56 + 27} : ~weather_cache[d]
        /\ \A d \in {28 + 13, 28 + 26} : weather_cache[d]

C13_Witness ==
    /\ call = "predict_weather"
    /\ call_seed = int32_max
    /\ use_legacy_random
    /\ weather_cache[28 + green_rain_day(call_seed, use_legacy_random)]

C15_MonotoneInMinRain ==
    (call = "check" /\ ret) =>
        \A i \in DOMAIN conditions : \A k \in 1 .. conditions[i].min_rain_days :
            conditions_met([conditions EXCEPT ![i].min_rain_days = k],
                           all_weather(call_seed, use_legacy_random))

C15_Witness ==
    /\ call = "check"
    /\ ret
    /\ Len(conditions) = 2
    /\ conditions[2].min_rain_days >= 2

(* C16: a predictor disabled with set_enabled(False) returns False from check,   *)
(* whatever seed, legacy flag and conditions.                                    *)
C16_DisabledReturnsFalse ==
    (call = "check" /\ ~enabled) => ret = FALSE

(* C17: WeatherCondition construction succeeds exactly when                      *)
(* 1 <= start_day <= end_day <= 28 and 1 <= min_rain_days < end_day - start_day  *)
(* + 1; min_rain_days equal to the day count and every single-day range are      *)
(* refused.                                                                      *)
C17_ConditionValidation ==
    built.model = "WeatherCondition" =>
        LET day_count == args.end_day - args.start_day + 1
        IN /\ (built.error = "none") <=>
                  (/\ 1 <= args.start_day
                   /\ args.start_day <= args.end_day
                   /\ args.end_day <= 28
                   /\ 1 <= args.min_rain_days
                   /\ args.min_rain_days < day_count)
           /\ (args.min_rain_days = day_count => built.error # "none")
           /\ (args.start_day = args.end_day => built.error # "none")

C17_Witness ==
    /\ built.model = "WeatherCondition"
    /\ built.error = "ValueError"
    /\ args.start_day = 5
    /\ args.end_day = 5
    /\ args.min_rain_days = 1

(* C18: SearchRequest construction fails when start_seed >= end_seed, start_seed *)
(* < 0, end_seed > 2147483647 or output_limit < 1, and a run that was started    *)
(* has at least two seeds (end_seed - start_seed + 1 >= 2, the difference is at  *)
(* least 1) and an output limit of at least 1.                                   *)
C18_RequestValidation ==
    /\ built.model = "SearchRequest" =>
          ((\/ ~IntLess(args.start_seed, args.end_seed)
            \/ IntLess(args.start_seed, PyInt(0))
            \/ IntLess(PyInt(int32_max), args.end_seed)
            \/ (args.output_limit # <<>> /\ args.output_limit[1] < 1))
           => built.error # "none")
    /\ pc_main # "idle" => (end_seed - start_seed >= 1 /\ output_limit >= 1)

C18_Witness ==
    /\ pc_main = "begin"
    /\ end_seed - start_seed = 1
    /\ end_seed = int32_max
    /\ output_limit = 1

(* C19: with the clause (Spring, 1..10, at least 5 rainy days) and legacy off,   *)
(* the seeds of 0..1000 check accepts are 59, 73, 101, 142, 659, 932, 938, in    *)
(* that order: at every point of the scan the accepted seeds are the listed ones *)
(* below the scan position.                                                      *)
C19_SampleSeeds ==
    pc_main \in {"fallback", "done"} =>
        results = SelectSeq(expected_seeds_sample1,
                            LAMBDA x : x < start_seed + checked_count)

C19_Witness ==
    /\ pc_main = "done"
    /\ checked_count = sample_end + 1
    /\ results = expected_seeds_sample1

(* (x * y) % int32_max digit by digit in base 4:                                 *)
(* x * y = 4 * (x * (y \div 4)) + x * (y % 4)                                    *)
RECURSIVE MulModByDigits(_, _)
MulModByDigits(x, y) ==
    IF y = 0 THEN 0
    ELSE LET h == MulModByDigits(x, y \div 4)
             h2 == AddMod(h, h)
             h4 == AddMod(h2, h2)
             x2 == AddMod(x, x)
             low == IF y % 4 = 0 THEN 0
                    ELSE IF y % 4 = 1 THEN x
                    ELSE IF y % 4 = 2 THEN x2
                    ELSE AddMod(x2, x)
         IN InOrder(h, InOrder(h2, AddMod(h4, low)))

(* C20: for every signed 32-bit seed, -2^31 and negative hash outputs included,  *)
(* _get_first_rand returns (1121899819 * |seed| + 1559595546) mod (2^31 - 1), a  *)
(* value in 0 .. 2^31 - 2; _random_next(seed, 8) is in 0 .. 7 and the green rain *)
(* day is one of 5, 6, 7, 14, 15, 16, 18, 23.                                    *)
C20_FirstRand ==
    /\ call = "_get_first_rand" =>
          /\ rng_ret = AddMod(MulModByDigits(1121899819,
                                  IF rng_seed = MinInt32 THEN 1
                                  ELSE IF rng_seed < 0 THEN (0 - rng_seed) % int32_max
                                  ELSE rng_seed % int32_max),
                              1559595546)
          /\ rng_ret \in 0 .. (int32_max - 1)
    /\ call = "_random_next" => rng_ret \in 0 .. 7
    /\ call \in {"green_rain_day", "green_rain_day_legacy"} =>
          rng_ret \in {5, 6, 7, 14, 15, 16, 18, 23}

C20_Witness ==
    /\ call = "_get_first_rand"
    /\ rng_seed = MinInt32
    /\ rng_ret = AddMod(1121899819, 1559595546)

(* x reduced modulo int32_max with the sign of x kept *)
TruncRem(x) ==
    IF x = MinInt32 THEN 0 - 1
    ELSE IF x < 0 THEN 0 - ((0 - x) % int32_max)
    ELSE x % int32_max

(* (t[1] + ... + t[5]) modulo int32_max for integers of the signed 32-bit range, *)
(* summed by 16-bit halves: the sum is q * 2^31 + rest, and 2^31 leaves 1        *)
SumMod5(t) ==
    LET lo == (t[1] % Half) + (t[2] % Half) + (t[3] % Half) + (t[4] % Half)
              + (t[5] % Half)
        hi == (t[1] \div Half) + (t[2] \div Half) + (t[3] \div Half)
              + (t[4] \div Half) + (t[5] \div Half) + (lo \div Half)
        rest == ((hi % 32768) * Half) + (lo % Half)
    IN AddMod(rest % int32_max, (hi \div 32768) % int32_max)

(* C21: get_random_seed reduces each input to the residue r of the same sign     *)
(* with |r| < 2147483647 and r congruent to the input; in legacy mode it returns *)
(* the sum of the residues modulo 2147483647, 15 for (1,2,3,4,5) and 777 for     *)
(* (777,0,0,0,0); otherwise it returns the hash of the five residues.            *)
C21_RandomSeed ==
    call = "get_random_seed" =>
        LET r == [i \in 1 .. 5 |-> TruncRem(mix_args[i])]
        IN /\ \A i \in 1 .. 5 :
                  /\ 0 - int32_max < r[i] /\ r[i] < int32_max
                  /\ (mix_args[i] - r[i]) % int32_max = 0
                  /\ mix_args[i] < 0 => r[i] <= 0
                  /\ mix_args[i] >= 0 => r[i] >= 0
           /\ use_legacy_random =>
                  /\ cpu_seed = SumMod5(r)
                  /\ mix_args = <<1, 2, 3, 4, 5>> => cpu_seed = 15
                  /\ mix_args = <<777, 0, 0, 0, 0>> => cpu_seed = 777
           /\ ~use_legacy_random =>
                  /\ cpu_seed = get_hash_from_array(r[1], r[2], r[3], r[4], r[5])
                  /\ mix_args = <<1, 2, 3, 4, 5>> => cpu_seed = 100340316
                  /\ mix_args = <<777, 0, 0, 0, 0>> => cpu_seed = 827005275

C21_Witness ==
    /\ call = "get_random_seed"
    /\ use_legacy_random
    /\ mix_args = <<MinInt32, int32_max, 0 - 1, 0, 0>>
    /\ cpu_seed = int32_max - 2

(* C22: for every tuple the weather oracle mixes (green rain seed, summer draw,  *)
(* spring and fall draw), for game seeds up to 2147483647 and both legacy modes, *)
(* get_random_seed_gpu returns the 32-bit value HashHelper.get_random_seed       *)
(* returns.                                                                      *)
C22_SameSeedMixing ==
    gpu_seed # <<>> => gpu_seed = ToWord(cpu_seed)

(* C23 as stated: the worker count is 1 below 10,000 seeds, min(2, H/2) below    *)
(* 100,000, min(4, H/2) below 1,000,000 and min(8, H) otherwise, for every       *)
(* total and every H >= 1; it is at least 1 and at most total, and every worker  *)
(* has a non-empty sub-range.                                                    *)
C23_WorkerTable ==
    pc_main = "gather" =>
        /\ num_workers =
               (IF total_seeds < 10000 THEN 1
                ELSE IF total_seeds < 100000 THEN Min2(2, cpu_count \div 2)
                ELSE IF total_seeds < 1000000 THEN Min2(4, cpu_count \div 2)
                ELSE Min2(8, cpu_count))
        /\ num_workers >= 1
        /\ num_workers <= total_seeds
        /\ \A i \in Workers : w_start[i] <= w_end[i]

(* C23 amended: the same table with H/2 rounded down and the result raised to 1  *)
(* when it is 0 (H = 1 in the two middle rows).                                  *)
C23_WorkerTableClamped ==
    pc_main = "gather" =>
        /\ num_workers =
               (IF total_seeds < 10000 THEN 1
                ELSE IF total_seeds < 100000
                     THEN (IF cpu_count < 2 THEN 1 ELSE Min2(2, cpu_count \div 2))
                ELSE IF total_seeds < 1000000
                     THEN (IF cpu_count < 2 THEN 1 ELSE Min2(4, cpu_count \div 2))
                ELSE Min2(8, cpu_count))
        /\ num_workers >= 1
        /\ num_workers <= total_seeds
        /\ Cardinality(DOMAIN w_start) = num_workers
        /\ \A i \in Workers : w_start[i] <= w_end[i]

C23_Witness ==
    /\ pc_main = "gather"
    /\ cpu_count = 1
    /\ total_seeds = 100000
    /\ num_workers = 1
    /\ w_end[0] - w_start[0] = 99999

(* C24: should_stop is set only when the match list is full and is never cleared *)
(* once set; after it is set no worker appends a match, emits a found event,     *)
(* takes up a further seed or increments checked_count; a worker that gets the   *)
(* event loop after the flag is set has returned when it gives the loop up.      *)
C24_Step ==
    /\ (~should_stop /\ should_stop') => Len(results') >= output_limit
    /\ should_stop =>
           /\ should_stop'
           /\ results' = results
           /\ FoundOf(events') = FoundOf(events)
           /\ checked_count' = checked_count
           /\ pos' = pos
           /\ \A w \in Workers : pc[w] = "loop" => pc'[w] \in {"loop", "done"}
           /\ (cur \in Workers /\ cur' # cur) => pc'[cur] = "done"

C24_Cancellation == [][C24_Step]_vars

C24_Witness ==
    /\ CpuRunDone
    /\ should_stop
    /\ discarded = {}
    /\ \E w \in Workers :
           /\ result_count[w] < output_limit
           /\ pos[w] > w_start[w]
           /\ pos[w] <= w_end[w]

(* C25: a worker never waits for the transport: no worker task is blocked in a   *)
(* send, so no worker holds the results lock while a send is outstanding and no  *)
(* worker waits for the lock behind a send.                                      *)
C25_FireAndForget ==
    /\ io \cap Workers = {}
    /\ ~(locked /\ \E w \in io \cap Workers : pc[w] = "found_sent")
    /\ ~(waiters # <<>> /\ io \cap Workers # {})

(* the progress messages broadcast so far, in emission order *)
ProgressOf(evs) == SelectSeq(evs, LAMBDA m : m.type = "progress")

(* the progress messages the workers broadcast: all but the one perform_search   *)
(* sends after gather                                                            *)
WorkerProgressOf(evs) ==
    LET P == ProgressOf(evs)
    IN IF pc_main \in {"final_progress", "done"} THEN SubSeq(P, 1, Len(P) - 1) ELSE P

(* the seeds the workers have gone past *)
RECURSIVE SeedsPassed(_)
SeedsPassed(n) ==
    IF n = 0 THEN 0 ELSE (pos[n - 1] - w_start[n - 1]) + SeedsPassed(n - 1)

C26_State ==
    /\ checked_count >= 0
    /\ checked_count <= total_seeds
    /\ checked_count = SeedsPassed(num_workers)
    /\ \A w \in Workers : pos[w] <= w_end[w] + 1
    /\ \A i \in 1 .. Len(events) :
           events[i].type = "progress" =>
               /\ 0 <= events[i].checkedCount
               /\ events[i].checkedCount <= events[i].total
               /\ events[i].total = total_seeds
               /\ 0 <= events[i].progress
               /\ events[i].progress <= 10000
    /\ RunDone =>
           LET P == ProgressOf(events)
           IN /\ P # <<>>
              /\ P[Len(P)].checkedCount = checked_count
              /\ (P[Len(P)].checkedCount = total_seeds) <=>
                     (/\ \A w \in Workers : pos[w] = w_end[w] + 1
                      /\ Len(results) < output_limit)

(* C26: checked_count never decreases during a run, counts each seed at most     *)
(* once (it is the number of seeds the workers have gone past) and never exceeds *)
(* total; every progress event has 0 <= checkedCount <= total and                *)
(* 0 <= progress <= 100; the checkedCount reported at completion equals total    *)
(* exactly when every worker exhausted its range and the cap was not reached.    *)
C26_CheckedCount ==
    [][checked_count' >= checked_count /\ C26_State']_vars

C26_Witness ==
    /\ RunDone
    /\ num_workers = 2
    /\ total_seeds = SmallRange + 1
    /\ Len(results) = output_limit
    /\ end_seed \in Range(results)
    /\ checked_count = total_seeds - 1

(* C27: consecutive progress events of the workers of a run are at least N       *)
(* seeds of checked_count apart, N = 1000 for fewer than 10,000 seeds and 5000   *)
(* otherwise, under every interleaving of the workers.                           *)
C27_Throttled ==
    LET P == WorkerProgressOf(events)
        N == IF end_seed - start_seed + 1 < 10000 THEN 1000 ELSE 5000
    IN \A i \in 1 .. (Len(P) - 1) :
           P[i + 1].checkedCount - P[i].checkedCount >= N

C27_Witness ==
    /\ RunDone
    /\ total_seeds = 2 * SmallInterval + 1
    /\ Len(WorkerProgressOf(events)) = 2
    /\ WorkerProgressOf(events)[2].checkedCount = 2 * SmallInterval

(* C28: every progress event, a worker's or the one perform_search sends after   *)
(* gather, reports elapsed as the time passed since start_time and speed as      *)
(* checkedCount divided by that elapsed time.                                    *)
C28_Step ==
    (Len(events') = Len(events) + 1 /\ events'[Len(events')].type = "progress") =>
        LET m == events'[Len(events')]
        IN /\ m.elapsed = now - start_time
           /\ m.elapsed > 0 => m.speed = Round(m.checkedCount * 100, m.elapsed)

C28_ElapsedSinceStart == [][C28_Step]_vars

(* C29: the accelerator path is attempted only when the condition set and the    *)
(* range are non-empty; with an empty condition set the run uses the CPU worker  *)
(* pool, and with a non-empty one the results come from the accelerator searcher *)
(* exactly when is_available() is true and no exception occurs, otherwise from   *)
(* the CPU worker pool.                                                          *)
WorkerPoolRun ==
    /\ ~gpu_used
    /\ num_workers >= 1
    /\ Len(ProgressOf(events)) >= 1

SearcherRun ==
    /\ gpu_used
    /\ num_workers = 0
    /\ ProgressOf(events) = <<>>

C29_WitnessNoConditions ==
    /\ RunDone
    /\ ~has_conditions /\ gpu_available
    /\ WorkerPoolRun

(* C30: for a fixed condition set, check(seed, legacy) and                       *)
(* predict_weather(seed, legacy) give the result of a fresh evaluation of that   *)
(* seed and flag whatever calls were made on the predictor before; the reused    *)
(* weather buffer holds the days of the current seed only.                       *)
C30_HistoryIndependent ==
    /\ call = "predict_weather" =>
           weather_cache = predict_weather(call_seed, use_legacy_random)
    /\ call = "check" =>
           /\ ret = check_returns(conditions, call_seed, use_legacy_random)
           /\ conditions # <<>> =>
                  weather_cache = predict_weather(call_seed, use_legacy_random)

(* an earlier check of another seed or flag returned TRUE; the seed and flag of  *)
(* the latest call do not meet the conditions                                    *)
C30_Witness ==
    /\ call = "predict_weather"
    /\ conditions # <<>>
    /\ ret = TRUE
    /\ ~check_returns(conditions, call_seed, use_legacy_random)
    /\ weather_cache = predict_weather(call_seed, use_legacy_random)

====
